---- MODULE Spec2Model ----
(***************************************************************************)
(* Model of the error-handling / hash-file subsystem of the Homebrew       *)
(* bottles sync system:                                                    *)
(*   - HashFileManager.save_to_s3_atomic (src/shared/models.py)            *)
(*   - RetryHandler.should_retry / retry_sync / retry_async and            *)
(*     ErrorClassifier (src/shared/error_handling.py)                      *)
(***************************************************************************)
EXTENDS Integers, Sequences, FiniteSets, TLC

VARIABLES
    \* ---- object store and HashFileManager.save_to_s3_atomic ----
    writers,        \* the processes that run save_to_s3_atomic on the bucket
    now,            \* the wall clock read by datetime.now()
    store,          \* the bucket: key -> document, or NoDoc when the key is absent
    pc,             \* per process: position inside save_to_s3_atomic
    bottles,        \* per process: HashFileManager.bottles (the keys of the map)
    last_updated,   \* per process: HashFileManager.last_updated
    data,           \* per process: local `data` of save_to_s3_atomic (to_dict())
    result,         \* per process: how the last call of save_to_s3_atomic ended
    hist,           \* per process: history of the current call (for the properties)
    \* ---- RetryHandler.retry_sync / retry_async ----
    max_attempts,   \* RetryConfig.max_attempts of the shared handler
    attempt,        \* per call: loop variable `attempt`
    status,         \* per call: "running" | "returned" | "raised"
    last_exception, \* per call: local `last_exception`
    retval,         \* per call: the value returned, or what was raised
    outcomes,       \* per call: outcome of each invocation of func so far
    sleeps,         \* per call: the attempts whose delay was slept
    metrics,        \* per call: put_retry_metric(attempt, success) emitted
    \* ---- pure functions applied to drawn inputs ----
    in_error,       \* the exception handed to should_retry / classify_error
    in_attempt,     \* the attempt number handed to them
    out,            \* their results, or NotApplied
    \* ---- RetryHandler.calculate_delay ----
    config,         \* the RetryConfig of the handler (the fields the delay uses)
    delays,         \* calculate_delay(attempt) for the attempts asked so far
    \* ---- PartialSyncRecovery ----
    recovery_store, \* the bucket of the recovery handler: key -> document or NoDoc
    recovery_state, \* the RecoveryState the orchestrator holds
    utcnow,         \* datetime.now(timezone.utc), in seconds
    saved_arg,      \* the state handed to the latest save_recovery_state call
    recovery_call,  \* the latest PartialSyncRecovery call and what it returned
    \* ---- HashFileManager: the bottles map ----
    manager,        \* a HashFileManager: its bottles map and last_updated
    manager_call,   \* the latest call on the manager and how it ended
    \* ---- OrchestrationService.load_existing_hash_file ----
    bucket,         \* the external document, the canonical one and the backup
    ladder,         \* the call: its position, its sync_config and the calls it made
    \* ---- the sync workers (ECS run, Lambda process_formula) ----
    ecs_sync,       \* ECSBottleDownloader.run: position, plan, progress, statistics
    lambda_sync     \* LambdaSyncWorker.process_formula: position, inputs, calls made

vars == <<writers, now, store, pc, bottles, last_updated, data, result, hist,
          max_attempts, attempt, status, last_exception, retval, outcomes, sleeps,
          metrics, in_error, in_attempt, out, config, delays,
          recovery_store, recovery_state, utcnow, saved_arg, recovery_call,
          manager, manager_call, bucket, ladder, ecs_sync, lambda_sync>>

saveVars == <<writers, now, store, pc, bottles, last_updated, data, result, hist>>
retryVars == <<max_attempts, attempt, status, last_exception, retval, outcomes, sleeps,
               metrics>>
pureVars == <<in_error, in_attempt, out>>
delayVars == <<config, delays>>
recoveryVars == <<recovery_store, recovery_state, utcnow, saved_arg, recovery_call>>
managerVars == <<manager, manager_call>>
ladderVars == <<bucket, ladder>>
workerVars == <<ecs_sync, lambda_sync>>
extVars == <<delayVars, recoveryVars, managerVars, ladderVars, workerVars>>

\* ---------------------------------------------------------------- bounds
MaxTime == 1
MaxBottles == 1

\* ------------------------------------------------------------ HashFileManager
HASH_FILE_KEY == "bottles_hash.json"

\* Faulty variant: the document is written straight to the canonical key.
TempKeyIsCanonical == "bottles_hash.json"

TEMP_HASH_FILE_KEY == "bottles_hash.json.tmp"

Keys == {HASH_FILE_KEY, TEMP_HASH_FILE_KEY}
Procs == {"p1", "p2"}
Times == 0..MaxTime
BottleKeys == 1..MaxBottles

\* HashFileManager.__init__: last_updated = None.
None == -1
\* download_json's None / an absent key. A document is a record with the two
\* fields of the hash file; NoDoc is the record that has neither.
NoDoc == [absent |-> TRUE]

\* to_dict(): last_updated (or the clock when it is unset) and the bottles map.
to_dict(lu, b, clock) ==
    [last_updated |-> IF lu = None THEN clock ELSE lu, bottles |-> b]

\* S3Service.upload_json: put_object of the whole document under the key.
put_object(s, key, doc) == [s EXCEPT ![key] = doc]

\* S3Service.download_json: the document, or None (NoDoc) when the key is absent
\* or the download failed.
download_json(s, key, fails) == IF fails THEN NoDoc ELSE s[key]

\* S3Service.delete_object.
delete_object(s, key) == [s EXCEPT ![key] = NoDoc]

\* Faulty variant: the copy reports success without writing the destination.
CopyNothing(s, src, dst) == s

\* s3_client.copy_object: server-side copy of the whole source object.
copy_object(s, src, dst) == [s EXCEPT ![dst] = s[src]]

\* Faulty variant: the read-back is not checked.
VerifySkipped(temp_data, lu) == "ok"

\* Lines 611-616: the read-back checks of save_to_s3_atomic.
verify(temp_data, lu) ==
    IF temp_data = NoDoc THEN "readback_none"
    ELSE IF temp_data.last_updated # lu THEN "mismatch"
    ELSE "ok"

\* History of a call of save_to_s3_atomic: the steps it executed, what its
\* read-back returned ("matched": a document carrying the call's last_updated;
\* "differs": a document carrying another; "none": no document), whether its
\* copy installed the document of this call, and the processes whose steps
\* wrote the canonical key since the call began.
NewHist ==
    [steps |-> <<"set_last_updated">>, readback |-> "not_read",
     installed_own |-> FALSE, changedBy |-> {}]

NoHist == [steps |-> <<>>, readback |-> "not_read", installed_own |-> FALSE,
           changedBy |-> {}]

Step(h, name) == [h EXCEPT !.steps = Append(@, name)]

Executed(h, name) == \E i \in 1..Len(h.steps) : h.steps[i] = name

InCall == {"upload", "readback", "copy", "delete", "except"}

\* A return statement of save_to_s3_atomic.
Finish(p, res, h) ==
    /\ pc' = [pc EXCEPT ![p] = "done"]
    /\ result' = [result EXCEPT ![p] = res]
    /\ hist' = [hist EXCEPT ![p] = h]

\* HashFileManager.add_bottle: inserts under the derived key.
add_bottle(p) ==
    /\ p \in writers /\ pc[p] = "idle"
    /\ \E k \in BottleKeys :
          /\ k \notin bottles[p]
          /\ bottles' = [bottles EXCEPT ![p] = @ \cup {k}]
    /\ UNCHANGED <<writers, now, store, pc, last_updated, data, result, hist>>
    /\ UNCHANGED <<retryVars, pureVars, extVars>>

\* The clock advances.
Tick ==
    /\ writers # {}
    /\ now < MaxTime
    /\ now' = now + 1
    /\ UNCHANGED <<writers, store, pc, bottles, last_updated, data, result, hist>>
    /\ UNCHANGED <<retryVars, pureVars, extVars>>

\* Lines 602-605: last_updated = now; data = to_dict().
SaveBegin(p) ==
    /\ p \in writers /\ pc[p] = "idle"
    /\ last_updated' = [last_updated EXCEPT ![p] = now]
    /\ data' = [data EXCEPT ![p] = to_dict(now, bottles[p], now)]
    /\ pc' = [pc EXCEPT ![p] = "upload"]
    /\ result' = [result EXCEPT ![p] = "none"]
    /\ hist' = [hist EXCEPT ![p] = NewHist]
    /\ UNCHANGED <<writers, now, store, bottles>>
    /\ UNCHANGED <<retryVars, pureVars, extVars>>

\* Lines 606-607: upload_json(data, TEMP_HASH_FILE_KEY). upload_json returns
\* false when put_object kept failing; the object may or may not have been
\* stored by a request whose answer was lost.
SaveUploadTemp(p) ==
    /\ p \in writers /\ pc[p] = "upload"
    /\ \E ok \in BOOLEAN, written \in BOOLEAN :
          /\ ok => written
          /\ store' = IF written THEN put_object(store, TEMP_HASH_FILE_KEY, data[p])
                                 ELSE store
          /\ IF ok
                THEN /\ pc' = [pc EXCEPT ![p] = "readback"]
                     /\ hist' = [hist EXCEPT ![p] = Step(@, "upload")]
                     /\ UNCHANGED result
                ELSE Finish(p, "false", hist[p])
    /\ UNCHANGED <<writers, now, bottles, last_updated, data>>
    /\ UNCHANGED <<retryVars, pureVars, extVars>>

\* Lines 610-616: temp_data = download_json(TEMP_HASH_FILE_KEY) and its checks.
SaveReadBack(p) ==
    /\ p \in writers /\ pc[p] = "readback"
    /\ \E fails \in BOOLEAN :
          LET temp_data == download_json(store, TEMP_HASH_FILE_KEY, fails)
              got == IF temp_data = NoDoc THEN "none"
                     ELSE IF temp_data.last_updated = last_updated[p] THEN "matched"
                     ELSE "differs"
              h == [hist[p] EXCEPT !.readback = got]
          IN IF verify(temp_data, last_updated[p]) = "ok"
                THEN /\ pc' = [pc EXCEPT ![p] = "copy"]
                     /\ hist' = [hist EXCEPT ![p] = Step(h, "readback")]
                     /\ UNCHANGED result
                ELSE Finish(p, "false", h)
    /\ UNCHANGED <<writers, now, store, bottles, last_updated, data>>
    /\ UNCHANGED <<retryVars, pureVars, extVars>>

\* Lines 619-620 and _copy_s3_object (634-659): the copy fails when the source
\* key is absent or the request fails; every exception becomes a false return.
SaveCopy(p) ==
    /\ p \in writers /\ pc[p] = "copy"
    /\ \E fails \in BOOLEAN :
          IF ~fails /\ store[TEMP_HASH_FILE_KEY] # NoDoc
             THEN /\ store' = copy_object(store, TEMP_HASH_FILE_KEY, HASH_FILE_KEY)
                  /\ pc' = [pc EXCEPT ![p] = "delete"]
                  /\ hist' = [q \in Procs |->
                                IF q = p
                                   THEN [Step(hist[q], "copy") EXCEPT
                                           !.installed_own = (store'[HASH_FILE_KEY] = data[p]),
                                           !.changedBy = @ \cup {p}]
                                   ELSE IF pc[q] \in InCall
                                           THEN [hist[q] EXCEPT !.changedBy = @ \cup {p}]
                                           ELSE hist[q]]
                  /\ UNCHANGED result
             ELSE /\ Finish(p, "false", hist[p])
                  /\ UNCHANGED store
    /\ UNCHANGED <<writers, now, bottles, last_updated, data>>
    /\ UNCHANGED <<retryVars, pureVars, extVars>>

\* Lines 623-625: delete_object(TEMP_HASH_FILE_KEY); its result is ignored.
\* delete_object (s3_service.py 317-334) catches ClientError only, so any other
\* error of the client propagates into the except clause of line 627.
SaveDeleteTemp(p) ==
    /\ p \in writers /\ pc[p] = "delete"
    /\ \E outcome \in {"ok", "ClientError", "raise"} :
          /\ store' = IF outcome = "ok" THEN delete_object(store, TEMP_HASH_FILE_KEY)
                                        ELSE store
          /\ IF outcome = "raise"
                THEN /\ pc' = [pc EXCEPT ![p] = "except"]
                     /\ hist' = [hist EXCEPT ![p] = Step(@, "delete")]
                     /\ UNCHANGED result
                ELSE Finish(p, "true", Step(hist[p], "delete"))
    /\ UNCHANGED <<writers, now, bottles, last_updated, data>>
    /\ UNCHANGED <<retryVars, pureVars, extVars>>

\* Lines 627-632: the except clause deletes the temp key and returns false; an
\* error of that delete other than ClientError leaves the call by raising.
SaveExcept(p) ==
    /\ p \in writers /\ pc[p] = "except"
    /\ \E outcome \in {"ok", "ClientError", "raise"} :
          /\ store' = IF outcome = "ok" THEN delete_object(store, TEMP_HASH_FILE_KEY)
                                        ELSE store
          /\ Finish(p, IF outcome = "raise" THEN "raised" ELSE "false",
                    Step(hist[p], "cleanup_delete"))
    /\ UNCHANGED <<writers, now, bottles, last_updated, data>>
    /\ UNCHANGED <<retryVars, pureVars, extVars>>

\* The caller goes on after save_to_s3_atomic returned: the call's locals and
\* its history are gone.
SaveReturn(p) ==
    /\ p \in writers /\ pc[p] = "done"
    /\ pc' = [pc EXCEPT ![p] = "idle"]
    /\ data' = [data EXCEPT ![p] = NoDoc]
    /\ result' = [result EXCEPT ![p] = "none"]
    /\ hist' = [hist EXCEPT ![p] = NoHist]
    /\ UNCHANGED <<writers, now, store, bottles, last_updated>>
    /\ UNCHANGED <<retryVars, pureVars, extVars>>

\* The process stops between two steps of save_to_s3_atomic.
Crash(p) ==
    /\ p \in writers /\ pc[p] \in InCall
    /\ pc' = [pc EXCEPT ![p] = "crashed"]
    /\ UNCHANGED <<writers, now, store, bottles, last_updated, data, result, hist>>
    /\ UNCHANGED <<retryVars, pureVars, extVars>>

\* A new process takes over: HashFileManager.__init__ (lines 217-226).
Restart(p) ==
    /\ p \in writers /\ pc[p] = "crashed"
    /\ pc' = [pc EXCEPT ![p] = "idle"]
    /\ bottles' = [bottles EXCEPT ![p] = {}]
    /\ last_updated' = [last_updated EXCEPT ![p] = None]
    /\ data' = [data EXCEPT ![p] = NoDoc]
    /\ result' = [result EXCEPT ![p] = "none"]
    /\ hist' = [hist EXCEPT ![p] = NoHist]
    /\ UNCHANGED <<writers, now, store>>
    /\ UNCHANGED <<retryVars, pureVars, extVars>>

\* The steps of the writers.
SaveNext ==
    \/ Tick
    \/ \E p \in Procs :
        \/ add_bottle(p)
        \/ SaveBegin(p)
        \/ SaveUploadTemp(p)
        \/ SaveReadBack(p)
        \/ SaveCopy(p)
        \/ SaveDeleteTemp(p)
        \/ SaveExcept(p)
        \/ SaveReturn(p)

\* The steps of a writer that may stop at any point and be replaced.
CrashNext ==
    \/ SaveNext
    \/ \E p \in Procs : Crash(p) \/ Restart(p)

\* ------------------------------------------------------------- RetryHandler
MaxAttempts == 3

ExcTypes == {"ConnectionError", "TimeoutError", "ClientError", "ValueError",
             "KeyError", "PermissionError"}

\* Faulty variant: SlowDown is missing from the retryable codes.
RetryableCodesWithoutSlowDown ==
    {"Throttling", "ThrottlingException", "RequestLimitExceeded",
     "ServiceUnavailable", "InternalError"}

\* retryable_codes of should_retry (lines 299-302).
retryable_codes == {"Throttling", "ThrottlingException", "RequestLimitExceeded",
                    "ServiceUnavailable", "InternalError", "SlowDown"}

\* Provider error codes: the ones the code names, a code it does not name, and
\* the '' that error.response.get('Error', {}).get('Code', '') gives by default.
Codes == {"Throttling", "ThrottlingException", "RequestLimitExceeded",
          "ServiceUnavailable", "InternalError", "SlowDown",
          "NoSuchBucket", "NoSuchKey", "AccessDenied", "InvalidRequest",
          "MalformedPolicy", "SignatureDoesNotMatch", "InvalidAccessKeyId",
          "OtherCode", ""}

\* What the lower-cased / plain message of an exception may contain.
Markers == {"timeout", "hash", "corruption", "NoSuchKey"}

\* An exception: the classes among ExcTypes it is an instance of (a class may
\* inherit from several), its provider code (ClientError only) and the
\* substrings its message contains.
Exc(types, code, msg) == [types |-> types, code |-> code, msg |-> msg]

isinstance(error, classes) == error.types \cap classes # {}

\* Faulty variant: the attempt budget is cut one attempt early.
ShouldRetryOffByOne(error, att, max) ==
    IF att >= max - 1 THEN FALSE
    ELSE IF isinstance(error, {"ConnectionError", "TimeoutError"}) THEN TRUE
    ELSE IF isinstance(error, {"ClientError"}) THEN error.code \in retryable_codes
    ELSE IF isinstance(error, {"ValueError", "KeyError", "PermissionError"}) THEN FALSE
    ELSE TRUE

\* Faulty variant: value/key/permission errors fall through to the default.
ShouldRetryValueErrors(error, att, max) ==
    IF att >= max THEN FALSE
    ELSE IF isinstance(error, {"ConnectionError", "TimeoutError"}) THEN TRUE
    ELSE IF isinstance(error, {"ClientError"}) THEN error.code \in retryable_codes
    ELSE TRUE

\* RetryHandler.should_retry (lines 278-310).
should_retry(error, att, max) ==
    IF att >= max THEN FALSE
    ELSE IF isinstance(error, {"ConnectionError", "TimeoutError"}) THEN TRUE
    ELSE IF isinstance(error, {"ClientError"}) THEN error.code \in retryable_codes
    ELSE IF isinstance(error, {"ValueError", "KeyError", "PermissionError"}) THEN FALSE
    ELSE TRUE

\* Faulty variant: the message rules are tried before the ValueError, KeyError
\* and PermissionError rules.
MessageRulesBeforeTypes(error) ==
    IF isinstance(error, {"ConnectionError", "TimeoutError"}) THEN "network_error"
    ELSE IF isinstance(error, {"ClientError"}) THEN
        IF error.code \in {"NoSuchBucket", "NoSuchKey", "AccessDenied"} THEN "s3_error"
        ELSE IF error.code \in {"InvalidRequest", "MalformedPolicy"} THEN "validation_error"
        ELSE IF error.code \in {"Throttling", "RequestLimitExceeded"}
             THEN "resource_exhaustion"
        ELSE IF error.code \in {"SignatureDoesNotMatch", "InvalidAccessKeyId"}
             THEN "authentication_error"
        ELSE "s3_error"
    ELSE IF "timeout" \in error.msg THEN "timeout_error"
    ELSE IF "hash" \in error.msg \/ "corruption" \in error.msg THEN "hash_corruption"
    ELSE IF isinstance(error, {"ValueError", "KeyError"}) THEN "validation_error"
    ELSE IF isinstance(error, {"PermissionError"}) THEN "authentication_error"
    ELSE "unknown_error"

\* ErrorClassifier._determine_error_type (lines 446-485).
_determine_error_type(error) ==
    IF isinstance(error, {"ConnectionError", "TimeoutError"}) THEN "network_error"
    ELSE IF isinstance(error, {"ClientError"}) THEN
        IF error.code \in {"NoSuchBucket", "NoSuchKey", "AccessDenied"} THEN "s3_error"
        ELSE IF error.code \in {"InvalidRequest", "MalformedPolicy"} THEN "validation_error"
        ELSE IF error.code \in {"Throttling", "RequestLimitExceeded"}
             THEN "resource_exhaustion"
        ELSE IF error.code \in {"SignatureDoesNotMatch", "InvalidAccessKeyId"}
             THEN "authentication_error"
        ELSE "s3_error"
    ELSE IF isinstance(error, {"ValueError", "KeyError"}) THEN "validation_error"
    ELSE IF isinstance(error, {"PermissionError"}) THEN "authentication_error"
    ELSE IF "timeout" \in error.msg THEN "timeout_error"
    ELSE IF "hash" \in error.msg \/ "corruption" \in error.msg THEN "hash_corruption"
    ELSE "unknown_error"

\* str(error) contains "NoSuchKey": a ClientError's message carries its code.
MessageHasNoSuchKey(error) ==
    \/ "NoSuchKey" \in error.msg
    \/ (isinstance(error, {"ClientError"}) /\ error.code = "NoSuchKey")

\* Faulty variant: the validation branch is missing, so validation errors get
\* the default policy.
RecoveryRetriesValidation(error_type, att, no_such_key) ==
    IF error_type = "network_error" THEN (IF att < 5 THEN "retry" ELSE "skip")
    ELSE IF error_type = "s3_error" THEN
        IF no_such_key THEN "skip"
        ELSE IF att < 3 THEN "retry" ELSE "skip"
    ELSE IF error_type = "hash_corruption" THEN "rebuild"
    ELSE IF error_type = "resource_exhaustion" THEN (IF att < 10 THEN "retry" ELSE "abort")
    ELSE IF error_type = "authentication_error" THEN "abort"
    ELSE IF error_type = "timeout_error" THEN (IF att < 3 THEN "retry" ELSE "skip")
    ELSE IF att < 2 THEN "retry" ELSE "skip"

\* Faulty variant: a network error is retried once more, at attempt 5.
RecoveryNetworkOffByOne(error_type, att, no_such_key) ==
    IF error_type = "network_error" THEN (IF att <= 5 THEN "retry" ELSE "skip")
    ELSE IF error_type = "s3_error" THEN
        IF no_such_key THEN "skip"
        ELSE IF att < 3 THEN "retry" ELSE "skip"
    ELSE IF error_type = "hash_corruption" THEN "rebuild"
    ELSE IF error_type = "resource_exhaustion" THEN (IF att < 10 THEN "retry" ELSE "abort")
    ELSE IF error_type = "validation_error" THEN "skip"
    ELSE IF error_type = "authentication_error" THEN "abort"
    ELSE IF error_type = "timeout_error" THEN (IF att < 3 THEN "retry" ELSE "skip")
    ELSE IF att < 2 THEN "retry" ELSE "skip"

\* ErrorClassifier.determine_recovery_action (lines 487-531), on the context's
\* error_type and attempt_number and on whether its message names NoSuchKey.
determine_recovery_action(error_type, att, no_such_key) ==
    IF error_type = "network_error" THEN (IF att < 5 THEN "retry" ELSE "skip")
    ELSE IF error_type = "s3_error" THEN
        IF no_such_key THEN "skip"
        ELSE IF att < 3 THEN "retry" ELSE "skip"
    ELSE IF error_type = "hash_corruption" THEN "rebuild"
    ELSE IF error_type = "resource_exhaustion" THEN (IF att < 10 THEN "retry" ELSE "abort")
    ELSE IF error_type = "validation_error" THEN "skip"
    ELSE IF error_type = "authentication_error" THEN "abort"
    ELSE IF error_type = "timeout_error" THEN (IF att < 3 THEN "retry" ELSE "skip")
    ELSE IF att < 2 THEN "retry" ELSE "skip"

\* ------------------------------------------------- retry_sync / retry_async
NoError == Exc({}, "", {})
NoException == [err |-> NoError, at |-> 0]
NoValue == [kind |-> "none", at |-> 0, err |-> NoError]

\* The exceptions the wrapped function raises in the retry loops: one of each
\* branch of should_retry.
LoopErrors ==
    {Exc({"ConnectionError"}, "", {}), Exc({"ClientError"}, "Throttling", {}),
     Exc({"ClientError"}, "AccessDenied", {}), Exc({"ValueError"}, "", {}),
     Exc({"PermissionError"}, "", {}), Exc({}, "", {})}

\* What one invocation of func does: returns, or raises one of LoopErrors.
InvocationOutcomes ==
    {[ok |-> TRUE, err |-> NoError]} \cup {[ok |-> FALSE, err |-> e] : e \in LoopErrors}

Calls == {"sync", "async"}

\* range(1, self.config.max_attempts + 1)
attempt_range(max) == 1..max

\* `raise last_exception` (lines 361, 412).
raise_last(exc) == [kind |-> "exception", at |-> exc.at, err |-> exc.err]

\* Faulty variant: the first exception is kept instead of the latest.
KeepFirstException(old, new) == IF old.at = 0 THEN new ELSE old

\* `last_exception = e` (lines 343, 394).
set_last_exception(old, new) == new

\* Faulty variant: the attempt counter is a field of the handler, which every
\* call on the handler reads.
HandlerAttempt(c) == attempt["sync"]

\* `for attempt in range(...)` (lines 330, 381): the loop variable is a local
\* of the call.
local_attempt(c) == attempt[c]

\* Faulty variant: the delay slept is the one of the attempt to come.
DelayOfNextAttempt(a) == a + 1

\* `delay = self.calculate_delay(attempt)`, `time.sleep(delay)` (lines
\* 354-356): the attempt whose delay retry_sync sleeps.
sleep_delay(a) == a

\* Faulty variant: the delay slept is always the one of the first attempt.
DelayOfFirstAttempt(a) == 1

\* `delay = self.calculate_delay(attempt)`, `await asyncio.sleep(delay)` (lines
\* 405-407): the attempt whose delay retry_async sleeps.
asyncio_sleep_delay(a) == a

\* One iteration of the for loop of retry_sync (lines 330-361): func is invoked;
\* a result is returned at once; an exception is recorded, and the loop breaks
\* when should_retry refuses it, sleeps when another attempt follows, and
\* raises the last exception when the range is exhausted.
retry_sync ==
    /\ status["sync"] = "running"
    /\ local_attempt("sync") \in attempt_range(max_attempts)
    /\ \E o \in InvocationOutcomes :
          LET a == local_attempt("sync")
              e == set_last_exception(last_exception["sync"], [err |-> o.err, at |-> a])
              retry == should_retry(o.err, a, max_attempts)
              more == (a + 1) \in attempt_range(max_attempts)
              r == IF o.ok THEN [kind |-> "value", at |-> a, err |-> NoError]
                   ELSE IF ~retry \/ ~more THEN raise_last(e)
                   ELSE NoValue
          IN /\ outcomes' = [outcomes EXCEPT !["sync"] = Append(@, o)]
             /\ metrics' = [metrics EXCEPT !["sync"] =
                              IF o.ok THEN (IF a > 1 THEN Append(@, <<a, TRUE>>) ELSE @)
                              ELSE Append(@, <<a, FALSE>>)]
             /\ last_exception' = [last_exception EXCEPT !["sync"] =
                                     IF o.ok THEN @ ELSE e]
             /\ sleeps' = [sleeps EXCEPT !["sync"] =
                             IF ~o.ok /\ retry /\ a < max_attempts
                             THEN Append(@, sleep_delay(a)) ELSE @]
             /\ retval' = [retval EXCEPT !["sync"] = r]
             /\ status' = [status EXCEPT !["sync"] =
                             IF r.kind = "value" THEN "returned"
                             ELSE IF r.kind = "exception" THEN "raised"
                             ELSE "running"]
             /\ attempt' = [attempt EXCEPT !["sync"] =
                              IF r.kind = "none" THEN a + 1 ELSE a]
    /\ UNCHANGED <<max_attempts, saveVars, pureVars, extVars>>

\* One iteration of the for loop of retry_async (lines 381-412): the same loop
\* with `await func(...)` and `await asyncio.sleep(delay)`.
retry_async ==
    /\ status["async"] = "running"
    /\ local_attempt("async") \in attempt_range(max_attempts)
    /\ \E o \in InvocationOutcomes :
          LET a == local_attempt("async")
              e == set_last_exception(last_exception["async"], [err |-> o.err, at |-> a])
              retry == should_retry(o.err, a, max_attempts)
              more == (a + 1) \in attempt_range(max_attempts)
              r == IF o.ok THEN [kind |-> "value", at |-> a, err |-> NoError]
                   ELSE IF ~retry \/ ~more THEN raise_last(e)
                   ELSE NoValue
          IN /\ outcomes' = [outcomes EXCEPT !["async"] = Append(@, o)]
             /\ metrics' = [metrics EXCEPT !["async"] =
                              IF o.ok THEN (IF a > 1 THEN Append(@, <<a, TRUE>>) ELSE @)
                              ELSE Append(@, <<a, FALSE>>)]
             /\ last_exception' = [last_exception EXCEPT !["async"] =
                                     IF o.ok THEN @ ELSE e]
             /\ sleeps' = [sleeps EXCEPT !["async"] =
                             IF ~o.ok /\ retry /\ a < max_attempts
                             THEN Append(@, asyncio_sleep_delay(a)) ELSE @]
             /\ retval' = [retval EXCEPT !["async"] = r]
             /\ status' = [status EXCEPT !["async"] =
                             IF r.kind = "value" THEN "returned"
                             ELSE IF r.kind = "exception" THEN "raised"
                             ELSE "running"]
             /\ attempt' = [attempt EXCEPT !["async"] =
                              IF r.kind = "none" THEN a + 1 ELSE a]
    /\ UNCHANGED <<max_attempts, saveVars, pureVars, extVars>>

RetryNext == retry_sync \/ retry_async

\* ------------------------------------------- the pure functions on drawn inputs
MaxAttemptArg == 11
MaxTypes == 2
MaxMarkers == 1

\* Every exception with at most MaxTypes classes and MaxMarkers message markers;
\* only a ClientError carries a provider code.
AllErrors ==
    {Exc(t, c, m) : t \in {x \in SUBSET ExcTypes : Cardinality(x) <= MaxTypes},
                    c \in Codes,
                    m \in {x \in SUBSET Markers : Cardinality(x) <= MaxMarkers}}

InputErrors == {e \in AllErrors : "ClientError" \notin e.types => e.code = ""}

NotApplied == [applied |-> FALSE, should_retry |-> FALSE, error_type |-> "",
               action |-> ""]

\* should_retry(error, attempt), classify_error(error, op) and
\* determine_recovery_action on the context of that error at that attempt.
Apply ==
    /\ ~out.applied
    /\ in_attempt >= 1
    /\ out' = [applied |-> TRUE,
               should_retry |-> should_retry(in_error, in_attempt, max_attempts),
               error_type |-> _determine_error_type(in_error),
               action |-> determine_recovery_action(_determine_error_type(in_error),
                                                    in_attempt,
                                                    MessageHasNoSuchKey(in_error))]
    /\ UNCHANGED <<in_error, in_attempt, max_attempts>>
    /\ UNCHANGED <<saveVars, attempt, status, last_exception, retval, outcomes, sleeps,
                   metrics, extVars>>

PureNext == Apply

\* ------------------------------------------------ RetryHandler.calculate_delay
MaxDelayAttempt == 5
MaxSeconds == 3
MaxBase == 3

\* The float fields of RetryConfig are exact fractions <<numerator, denominator>>
\* with a positive denominator.
Rat(n, d) == <<n, d>>
RatLeq(a, b) == a[1] * b[2] <= b[1] * a[2]
RatEq(a, b) == a[1] * b[2] = b[1] * a[2]
RatMul(a, b) == <<a[1] * b[1], a[2] * b[2]>>
RatMin(a, b) == IF RatLeq(a, b) THEN a ELSE b
RatMax(a, b) == IF RatLeq(a, b) THEN b ELSE a

RECURSIVE RatPow(_, _)
RatPow(a, k) == IF k = 0 THEN Rat(1, 1) ELSE RatMul(a, RatPow(a, k - 1))

\* RetryConfig is a plain dataclass: no field is validated, so a delay may be
\* negative and a base may be below one.
Seconds == {Rat(n, 1) : n \in -1..MaxSeconds}
ExponentialBases == {Rat(n, d) : n \in -1..MaxBase, d \in 1..2}
Multipliers == {Rat(1, 1), Rat(2, 1), Rat(1, 2), Rat(-1, 1)}
RetryConfigs ==
    [base_delay : Seconds, max_delay : Seconds, exponential_base : ExponentialBases,
     jitter : BOOLEAN, backoff_multiplier : Multipliers]

\* random.uniform(-jitter_range, jitter_range) as a fraction of jitter_range:
\* both ends and the middle.
UniformDraws == {-1, 0, 1}

\* Faulty variant: the maximum delay limit is not applied.
DelayWithoutCap(cfg, att, u) ==
    IF att <= 1 THEN Rat(0, 1)
    ELSE LET backoff == RatMul(cfg.base_delay, RatPow(cfg.exponential_base, att - 2))
             scaled == RatMul(backoff, cfg.backoff_multiplier)
             jittered == IF cfg.jitter THEN RatMul(scaled, Rat(10 + u, 10)) ELSE scaled
         IN RatMax(Rat(0, 1), jittered)

\* RetryHandler.calculate_delay (lines 250-276); u is the draw of
\* random.uniform: delay + u * (delay * 0.1) = delay * (10 + u) / 10.
calculate_delay(cfg, att, u) ==
    IF att <= 1 THEN Rat(0, 1)
    ELSE LET backoff == RatMul(cfg.base_delay, RatPow(cfg.exponential_base, att - 2))
             scaled == RatMul(backoff, cfg.backoff_multiplier)
             capped == RatMin(scaled, cfg.max_delay)
             jittered == IF cfg.jitter THEN RatMul(capped, Rat(10 + u, 10)) ELSE capped
         IN RatMax(Rat(0, 1), jittered)

\* delays[i] is the delay of attempt i - 1: the first attempt asked is 0.
AttemptOf(i) == i - 1

\* One call of calculate_delay, for the next attempt number.
CalculateDelay ==
    /\ AttemptOf(Len(delays) + 1) <= MaxDelayAttempt
    /\ \E u \in (IF config.jitter THEN UniformDraws ELSE {0}) :
          delays' = Append(delays, calculate_delay(config, AttemptOf(Len(delays) + 1), u))
    /\ UNCHANGED <<config, saveVars, retryVars, pureVars, recoveryVars, managerVars,
                   ladderVars, workerVars>>

DelayNext == CalculateDelay

\* -------------------------------------------------------- PartialSyncRecovery
MaxIds == 11
MaxReclass == 1

RECOVERY_STATE_KEY == "sync_recovery_state.json"
RecoveryKeys == {RECOVERY_STATE_KEY}
SyncIds == {"sync-1", "sync-2"}

\* Bottle identifiers. The lists of a RecoveryState are read only through `in`
\* and len, so each is kept as the set of its elements.
BottleIds == 1..MaxIds
Statuses == {"completed", "failed", "skipped", "other"}

\* An ISO timestamp with an offset, t seconds after the epoch.
Aware(t) == [kind |-> "aware", t |-> t]

\* RecoveryState(sync_id, start_time) with the defaults of the dataclass
\* (total_bottles and metadata are never read or written by the handler).
RecoveryState(sync_id, start_time) ==
    [sync_id |-> sync_id, start_time |-> start_time, last_successful_bottle |-> None,
     completed_bottles |-> {}, failed_bottles |-> {}, skipped_bottles |-> {},
     recovery_checkpoint |-> None]

\* RecoveryState.to_dict.
recovery_to_dict(state) ==
    [sync_id |-> state.sync_id, start_time |-> state.start_time,
     last_successful_bottle |-> state.last_successful_bottle,
     completed_bottles |-> state.completed_bottles,
     failed_bottles |-> state.failed_bottles,
     skipped_bottles |-> state.skipped_bottles,
     recovery_checkpoint |-> state.recovery_checkpoint]

\* save_recovery_state: upload_json(state.to_dict(), RECOVERY_STATE_KEY); the
\* upload may fail, and then nothing is written.
save_recovery_state(s, state, uploaded) ==
    IF uploaded THEN put_object(s, RECOVERY_STATE_KEY, recovery_to_dict(state)) ELSE s

\* Lines 670-679 of update_progress: the bottle is appended to the list of its
\* status unless it is already there.
record_status(state, bottle_id, bottle_status) ==
    IF bottle_status = "completed" THEN
        [state EXCEPT !.completed_bottles = @ \cup {bottle_id},
                      !.last_successful_bottle = bottle_id]
    ELSE IF bottle_status = "failed" THEN [state EXCEPT !.failed_bottles = @ \cup {bottle_id}]
    ELSE IF bottle_status = "skipped" THEN [state EXCEPT !.skipped_bottles = @ \cup {bottle_id}]
    ELSE state

\* Faulty variant: the checkpoint falls one completion late, at 1, 11, 21, ...
CheckpointOneLate(state) == Cardinality(state.completed_bottles) % 10 = 1

\* Line 682: len(state.completed_bottles) % 10 == 0.
checkpoint_due(state) == Cardinality(state.completed_bottles) % 10 = 0

\* The bottles reported so far, and the ones the orchestrator may report next:
\* identifiers are first reported in increasing order; the latest one and the
\* first MaxReclass ones may be reported again, and only the latter with
\* another status than completed.
Reported(state) ==
    state.completed_bottles \cup state.failed_bottles \cup state.skipped_bottles
Reportable(state) ==
    {b \in BottleIds :
        /\ \A a \in 1..(b - 1) : a \in Reported(state)
        /\ b \in Reported(state) => (b <= MaxReclass \/ b + 1 \notin Reported(state))}
ReportableStatuses(b) == IF b <= MaxReclass THEN Statuses ELSE {"completed"}

\* PartialSyncRecovery.update_progress (lines 661-684).
update_progress ==
    \E bottle_id \in Reportable(recovery_state) :
    \E bottle_status \in ReportableStatuses(bottle_id) :
      LET recorded == record_status(recovery_state, bottle_id, bottle_status)
          due == checkpoint_due(recorded)
          stamped == IF due THEN [recorded EXCEPT !.recovery_checkpoint = utcnow]
                     ELSE recorded
      IN /\ recovery_state' = stamped
         /\ IF due
            THEN /\ \E uploaded \in BOOLEAN :
                      recovery_store' = save_recovery_state(recovery_store, stamped, uploaded)
                 /\ saved_arg' = stamped
            ELSE UNCHANGED <<recovery_store, saved_arg>>
         /\ recovery_call' =
              [op |-> "update_progress", bottle_id |-> bottle_id, status |-> bottle_status,
               added |-> bottle_status = "completed"
                         /\ bottle_id \notin recovery_state.completed_bottles,
               saved |-> due]
         /\ UNCHANGED <<utcnow, saveVars, retryVars, pureVars, delayVars, managerVars,
                        ladderVars, workerVars>>

ProgressNext == update_progress

\* ------------------------------------ PartialSyncRecovery: load / resume / clear
MaxSkew == 1

\* Line 648: 24 * 3600 seconds.
ResumeWindow == 24 * 3600

\* start_time as stored: an ISO timestamp with an offset, one without (the
\* subtraction from an aware datetime raises), or text fromisoformat rejects.
Naive(t) == [kind |-> "naive", t |-> t]
Malformed == [kind |-> "malformed", t |-> 0]
StartTimes == {Aware(0), Aware(ResumeWindow), Naive(0), Malformed}

\* The clock at the calls: around the end of the window of a sync started at 0.
ClockValues == {0} \cup {ResumeWindow + d : d \in (-MaxSkew)..MaxSkew}

\* Objects that may lie under the recovery key besides a checkpoint: bytes that
\* are not JSON, the empty object, and an object without sync_id.
NotJson == [garbage |-> "not_json"]
EmptyObject == [garbage |-> "empty_object"]
NoSyncIdObject == [start_time |-> Aware(0)]

\* A checkpoint written by an older version: the required keys only.
MinimalCheckpoint(sync_id, start_time) == [sync_id |-> sync_id, start_time |-> start_time]

StoredCheckpoints ==
    UNION {{recovery_to_dict(RecoveryState(i, t)),
            recovery_to_dict(record_status(RecoveryState(i, t), 1, "completed")),
            MinimalCheckpoint(i, t)} : i \in SyncIds, t \in StartTimes}
StoredObjects == {NoDoc, NotJson, EmptyObject, NoSyncIdObject} \cup StoredCheckpoints

Raised(exception) == [raised |-> exception]
IsRaised(value) == "raised" \in DOMAIN value

\* RecoveryState.from_dict (lines 98-111): data['sync_id'] and
\* data['start_time'] raise KeyError when missing, the rest has defaults.
recovery_from_dict(d) ==
    IF ~({"sync_id", "start_time"} \subseteq DOMAIN d) THEN Raised("KeyError")
    ELSE [sync_id |-> d.sync_id, start_time |-> d.start_time,
          last_successful_bottle |->
              IF "last_successful_bottle" \in DOMAIN d THEN d.last_successful_bottle
              ELSE None,
          completed_bottles |->
              IF "completed_bottles" \in DOMAIN d THEN d.completed_bottles ELSE {},
          failed_bottles |->
              IF "failed_bottles" \in DOMAIN d THEN d.failed_bottles ELSE {},
          skipped_bottles |->
              IF "skipped_bottles" \in DOMAIN d THEN d.skipped_bottles ELSE {},
          recovery_checkpoint |->
              IF "recovery_checkpoint" \in DOMAIN d THEN d.recovery_checkpoint ELSE None]

\* S3Service.download_json on the recovery key: None when the key is absent,
\* the download fails or the body is not JSON.
download_recovery_json(s, fails) ==
    LET body == download_json(s, RECOVERY_STATE_KEY, fails)
    IN IF body = NotJson THEN NoDoc ELSE body

\* Faulty variant: the sync_id of the loaded state is not compared.
LoadWithoutSyncIdCheck(s, sync_id, fails) ==
    LET d == download_recovery_json(s, fails)
    IN IF d = NoDoc \/ d = EmptyObject THEN NoDoc
       ELSE LET state == recovery_from_dict(d)
            IN IF IsRaised(state) THEN NoDoc ELSE state

\* PartialSyncRecovery.load_recovery_state (lines 579-606); sync_id "" stands
\* for the default None. Every exception ends in `return None`.
load_recovery_state(s, sync_id, fails) ==
    LET d == download_recovery_json(s, fails)
    IN IF d = NoDoc \/ d = EmptyObject THEN NoDoc
       ELSE LET state == recovery_from_dict(d)
            IN IF IsRaised(state) THEN NoDoc
               ELSE IF sync_id # "" /\ state.sync_id # sync_id THEN NoDoc
               ELSE state

\* Faulty variant: the stale checkpoint is reported cleared but left in place.
ClearNothing(s, outcome) == s

\* How s3_client.delete_object ends: done, ClientError, or another exception.
DeleteOutcomes == {"deleted", "client_error", "other_error"}

\* PartialSyncRecovery.clear_recovery_state (lines 608-623): the store after
\* the call; both kinds of failure end in `return False`.
clear_recovery_state(s, outcome) ==
    IF outcome = "deleted" THEN delete_object(s, RECOVERY_STATE_KEY) ELSE s

\* PartialSyncRecovery.should_resume_sync (lines 625-659).
should_resume_sync ==
    \E current_sync_id \in SyncIds, fails \in BOOLEAN, outcome \in DeleteOutcomes :
      LET loaded == load_recovery_state(recovery_store, "", fails)
          same == loaded # NoDoc /\ loaded.sync_id = current_sync_id
          parsed == loaded # NoDoc /\ loaded.start_time.kind = "aware"
          recent == parsed /\ utcnow - loaded.start_time.t < ResumeWindow
          clears == loaded # NoDoc /\ ~same /\ parsed /\ ~recent
          resume == same \/ (loaded # NoDoc /\ recent)
      IN /\ recovery_store' = IF clears THEN clear_recovery_state(recovery_store, outcome)
                               ELSE recovery_store
         /\ recovery_call' =
              [op |-> "should_resume_sync", sync_id |-> current_sync_id,
               before |-> recovery_store[RECOVERY_STATE_KEY],
               downloaded |-> ~fails,
               resume |-> resume,
               returned |-> IF resume THEN loaded ELSE NoDoc,
               cleared |-> IF clears THEN outcome ELSE "not_called"]
         /\ UNCHANGED <<recovery_state, utcnow, saved_arg>>
         /\ UNCHANGED <<saveVars, retryVars, pureVars, delayVars, managerVars, ladderVars, workerVars>>

\* A call of load_recovery_state, with a sync_id or without.
LoadRecoveryState ==
    \E sync_id \in SyncIds \cup {""}, fails \in BOOLEAN :
      /\ recovery_call' =
           [op |-> "load_recovery_state", sync_id |-> sync_id,
            before |-> recovery_store[RECOVERY_STATE_KEY],
            downloaded |-> ~fails,
            returned |-> load_recovery_state(recovery_store, sync_id, fails)]
      /\ UNCHANGED <<recovery_store, recovery_state, utcnow, saved_arg>>
      /\ UNCHANGED <<saveVars, retryVars, pureVars, delayVars, managerVars, ladderVars, workerVars>>

\* A call of clear_recovery_state.
ClearRecoveryState ==
    \E outcome \in DeleteOutcomes :
      /\ recovery_store' = clear_recovery_state(recovery_store, outcome)
      /\ recovery_call' = [op |-> "clear_recovery_state",
                           before |-> recovery_store[RECOVERY_STATE_KEY],
                           returned |-> outcome = "deleted"]
      /\ UNCHANGED <<recovery_state, utcnow, saved_arg>>
      /\ UNCHANGED <<saveVars, retryVars, pureVars, delayVars, managerVars, ladderVars, workerVars>>

\* A new sync starts at the current time and saves its fresh state.
SaveRecoveryState ==
    \E sync_id \in SyncIds, uploaded \in BOOLEAN :
      LET state == RecoveryState(sync_id, Aware(utcnow))
      IN /\ recovery_store' = save_recovery_state(recovery_store, state, uploaded)
         /\ saved_arg' = state
         /\ recovery_call' = [op |-> "save_recovery_state", sync_id |-> sync_id,
                              before |-> recovery_store[RECOVERY_STATE_KEY],
                              returned |-> uploaded]
         /\ UNCHANGED <<recovery_state, utcnow>>
         /\ UNCHANGED <<saveVars, retryVars, pureVars, delayVars, managerVars, ladderVars, workerVars>>

ResumeNext ==
    should_resume_sync \/ LoadRecoveryState \/ ClearRecoveryState \/ SaveRecoveryState

\* ------------------------------------------------- HashFileManager: the map
MaxEntries == 2

\* A string is a sequence of tokens: a word of [a-zA-Z0-9_] characters, "-",
\* ".", "/", or "!" for a character outside the classes of the key pattern.
Separators == {"-", ".", "/", "!"}

IndicesOf(s, sep) == {i \in 1..Len(s) : s[i] = sep}
Highest(S) == CHOOSE i \in S : \A j \in S : j <= i
Lowest(S) == CHOOSE i \in S : \A j \in S : i <= j

\* Faulty variant: the platform is left out of the key.
KeyWithoutPlatform(name, version, platform) == name \o <<"-">> \o version

\* f"{formula.name}-{formula.version}-{platform}" (lines 264, 278 and 820).
bottle_key(name, version, platform) == name \o <<"-">> \o version \o <<"-">> \o platform

\* str.rsplit(sep, 1): one part without the separator, else the text before
\* and after its last occurrence.
rsplit(s, sep) ==
    IF IndicesOf(s, sep) = {} THEN <<s>>
    ELSE LET i == Highest(IndicesOf(s, sep))
         IN <<SubSeq(s, 1, i - 1), SubSeq(s, i + 1, Len(s))>>

\* str.split(sep).
RECURSIVE split(_, _)
split(s, sep) ==
    IF IndicesOf(s, sep) = {} THEN <<s>>
    ELSE LET i == Lowest(IndicesOf(s, sep))
         IN <<SubSeq(s, 1, i - 1)>> \o split(SubSeq(s, i + 1, Len(s)), sep)

\* sep.join(parts).
RECURSIVE join(_, _)
join(parts, sep) ==
    IF Len(parts) = 0 THEN <<>>
    ELSE IF Len(parts) = 1 THEN parts[1]
    ELSE parts[1] \o <<sep>> \o join(Tail(parts), sep)

\* str.endswith(suffix).
endswith(s, suffix) ==
    /\ Len(s) >= Len(suffix)
    /\ SubSeq(s, Len(s) - Len(suffix) + 1, Len(s)) = suffix

\* Two 64-character hexadecimal digests, the sentinel of a rebuilt entry and
\* the empty string.
HexA == "aaaaaaaaaaaaaaaaaaaaaaaaaaaaaaaaaaaaaaaaaaaaaaaaaaaaaaaaaaaaaaaa"
HexB == "bbbbbbbbbbbbbbbbbbbbbbbbbbbbbbbbbbbbbbbbbbbbbbbbbbbbbbbbbbbbbbbb"
Shas == {HexA, HexB, "unknown", ""}
\* re.match(r'^[a-fA-F0-9]{64}$', sha256).
IsHex64(sha256) == sha256 \in {HexA, HexB}

\* Dates: one strptime('%Y-%m-%d') accepts, one it rejects, and the empty one.
Dates == {"2024-01-15", "15/01/2024", ""}
\* The day the calls are made, a day more than two years before it and a day
\* after it.
Today == "2024-01-15"
OldDate == "2020-01-01"
FutureDate == "2099-01-01"
IsYMD(date) == date \in {Today, OldDate, FutureDate}
\* datetime.strptime(date, '%Y-%m-%d').date() as a day count (date.toordinal).
toordinal(date) ==
    CASE date = OldDate -> 737425
      [] date = Today -> 738900
      [] date = FutureDate -> 766280

\* A file size: an int, or a value of another type (a JSON string). Sizes are
\* counted in units of 2^20 bytes, so that 10 GiB is a number TLC can hold.
IntSize(n) == [type |-> "int", n |-> n]
StrSize == [type |-> "str", n |-> 0]
Sizes == {IntSize(1), IntSize(0), StrSize}

HashEntry(name, version, platform, sha256, date, size) ==
    [formula_name |-> name, version |-> version, platform |-> platform,
     sha256 |-> sha256, download_date |-> date, file_size |-> size]

\* HashEntry.validate (lines 83-110): "ok", or the exception it raises; the
\* comparison of a non-int file_size with 0 raises TypeError.
entry_validate(e) ==
    IF e.formula_name = <<>> THEN "ValueError"
    ELSE IF e.version = <<>> THEN "ValueError"
    ELSE IF e.platform = <<>> THEN "ValueError"
    ELSE IF e.sha256 = "" THEN "ValueError"
    ELSE IF ~IsHex64(e.sha256) THEN "ValueError"
    ELSE IF e.download_date = "" THEN "ValueError"
    ELSE IF ~IsYMD(e.download_date) THEN "ValueError"
    ELSE IF e.file_size.type # "int" THEN "TypeError"
    ELSE IF e.file_size.n <= 0 THEN "ValueError"
    ELSE "ok"

\* The value of a key of the "bottles" object that is no JSON object.
NotADict == [not_a_dict |-> TRUE]

\* HashEntry.from_dict (lines 120-130): data["sha256"], data["download_date"]
\* and data["file_size"] in this order.
entry_from_dict(name, version, platform, d) ==
    IF d = NotADict THEN Raised("TypeError")
    ELSE IF ~({"sha256", "download_date", "file_size"} \subseteq DOMAIN d)
         THEN Raised("KeyError")
    ELSE HashEntry(name, version, platform, d.sha256, d.download_date, d.file_size)

\* HashEntry.to_dict (lines 112-118).
entry_to_dict(e) ==
    [sha256 |-> e.sha256, download_date |-> e.download_date, file_size |-> e.file_size]

\* One item of the "bottles" object of a document.
Item(key, d) == [key |-> key, data |-> d]

\* HashFileManager() (lines 217-226).
EmptyManager == [bottles |-> <<>>, last_updated |-> None]

\* Faulty variant: an entry that is already stored is dropped instead of
\* replaced.
StoreOrDrop(b, key, e) ==
    IF key \in DOMAIN b THEN [k \in DOMAIN b \ {key} |-> b[k]] ELSE (key :> e) @@ b

\* self.bottles[bottle_key] = hash_entry.
store_entry(b, key, e) == (key :> e) @@ b

\* Faulty variant: the entry is stored before it is validated.
StoredBeforeValidate(m, stored) == stored

\* hash_entry.validate() (line 273) comes before the assignment of line 274:
\* the manager an exception of validate leaves behind.
left_by_validate(m, stored) == m

\* HashFileManager.add_bottle (lines 262-274): the manager after the call and
\* the exception raised, if any.
manager_add_bottle(m, name, version, platform, sha256, date, size) ==
    LET key == bottle_key(name, version, platform)
        e == HashEntry(name, version, platform, sha256, date, size)
    IN IF entry_validate(e) # "ok"
       THEN [manager |-> left_by_validate(m, [m EXCEPT !.bottles = store_entry(@, key, e)]),
             raised |-> entry_validate(e)]
       ELSE [manager |-> [m EXCEPT !.bottles = store_entry(@, key, e)],
             raised |-> "none"]

\* Faulty variant: the digest is not compared.
HasBottleByKeyOnly(m, name, version, platform, sha256) ==
    bottle_key(name, version, platform) \in DOMAIN m.bottles

\* HashFileManager.has_bottle (lines 276-283).
has_bottle(m, name, version, platform, sha256) ==
    LET key == bottle_key(name, version, platform)
    IN IF key \notin DOMAIN m.bottles THEN FALSE
       ELSE m.bottles[key].sha256 = sha256

\* The loop of load_from_dict (lines 234-250) over the items of "bottles" in
\* document order: the map built, and the exception that ended the loop.
RECURSIVE load_items(_, _)
load_items(b, items) ==
    IF items = <<>> THEN [bottles |-> b, raised |-> "none"]
    ELSE LET key == items[1].key
             parts == rsplit(key, "-")
             formula_parts == rsplit(parts[1], "-")
             e == entry_from_dict(formula_parts[1], formula_parts[2], parts[2],
                                  items[1].data)
         IN IF Len(parts) # 2 THEN load_items(b, Tail(items))
            ELSE IF Len(formula_parts) # 2 THEN load_items(b, Tail(items))
            ELSE IF IsRaised(e) THEN [bottles |-> b, raised |-> e.raised]
            ELSE IF entry_validate(e) # "ok"
                 THEN [bottles |-> b, raised |-> entry_validate(e)]
            ELSE load_items(store_entry(b, key, e), Tail(items))

\* dict.get(key) / dict.get(key, default) on a document.
get(d, field, default) == IF field \in DOMAIN d THEN d[field] ELSE default

\* HashFileManager.load_from_dict (lines 228-250).
load_from_dict(m, d) ==
    LET loaded == load_items(<<>>, get(d, "bottles", <<>>))
    IN [manager |-> [bottles |-> loaded.bottles,
                     last_updated |-> get(d, "last_updated", None)],
        raised |-> loaded.raised]

\* re.match(r'^[a-zA-Z0-9_-]+-[a-zA-Z0-9._-]+-[a-zA-Z0-9_]+$', bottle_key)
\* (lines 449 and 519).
matches_key_pattern(key) ==
    \E i, j \in IndicesOf(key, "-") :
        /\ 1 < i /\ i + 1 < j /\ j < Len(key)
        /\ \A k \in 1..(i - 1) : key[k] \notin {".", "/", "!"}
        /\ \A k \in (i + 1)..(j - 1) : key[k] \notin {"/", "!"}
        /\ \A k \in (j + 1)..Len(key) : key[k] \notin Separators

\* A last_updated value of a document: null (None), text that
\* datetime.fromisoformat rejects, or a timestamp.
Unparseable == -2
IsTimestamp(t) == t >= 0

\* One item of "bottles" passes validate_external_hash_file (lines 420-450).
item_is_valid(item) ==
    /\ item.data # NotADict
    /\ {"sha256", "download_date", "file_size"} \subseteq DOMAIN item.data
    /\ item.data.sha256 = "" \/ IsHex64(item.data.sha256)
    /\ item.data.download_date = "" \/ IsYMD(item.data.download_date)
    /\ item.data.file_size.type = "int" /\ item.data.file_size.n > 0
    /\ matches_key_pattern(item.key)

\* HashFileManager.validate_external_hash_file (lines 388-455): is_valid.
validate_external_hash_file(d) ==
    /\ "bottles" \in DOMAIN d
    /\ "last_updated" \in DOMAIN d
    /\ d.last_updated = None \/ IsTimestamp(d.last_updated)
    /\ \A i \in 1..Len(d.bottles) : item_is_valid(d.bottles[i])

\* HashFileManager._normalize_bottle_key (lines 507-532).
_normalize_bottle_key(key) ==
    IF matches_key_pattern(key) THEN key
    ELSE LET parts == split(key, "-")
             n == Len(parts)
         IN IF n >= 3
            THEN bottle_key(join(SubSeq(parts, 1, n - 2), "-"), parts[n - 1], parts[n])
            ELSE key

\* One migrated item (lines 481-496): missing fields get their defaults, the
\* date being today's.
migrate_item(item) ==
    [key |-> _normalize_bottle_key(item.key),
     data |-> [sha256 |-> get(item.data, "sha256", "unknown"),
               download_date |-> get(item.data, "download_date", "2024-01-15"),
               file_size |-> get(item.data, "file_size", IntSize(0))]]

RECURSIVE migrate_items(_)
migrate_items(items) ==
    IF items = <<>> THEN <<>>
    ELSE IF items[1].data = NotADict THEN migrate_items(Tail(items))
    ELSE <<migrate_item(items[1])>> \o migrate_items(Tail(items))

\* HashFileManager.migrate_external_hash_file (lines 457-505).
migrate_external_hash_file(d, clock) ==
    [last_updated |-> IF get(d, "last_updated", None) = None THEN clock
                      ELSE d.last_updated,
     bottles |-> migrate_items(get(d, "bottles", <<>>))]

\* The loop of merge_with_external_hash_file (lines 557-582): ValueError and
\* KeyError skip the item, any other exception leaves the loop.
RECURSIVE merge_items(_, _, _)
merge_items(b, items, merged_count) ==
    IF items = <<>> THEN [bottles |-> b, merged_count |-> merged_count, raised |-> "none"]
    ELSE LET key == items[1].key
             parts == rsplit(key, "-")
             formula_parts == rsplit(parts[1], "-")
             e == entry_from_dict(formula_parts[1], formula_parts[2], parts[2],
                                  items[1].data)
             error == IF IsRaised(e) THEN e.raised ELSE entry_validate(e)
         IN IF Len(parts) # 2 THEN merge_items(b, Tail(items), merged_count)
            ELSE IF Len(formula_parts) # 2 THEN merge_items(b, Tail(items), merged_count)
            ELSE IF error \in {"ValueError", "KeyError"}
                 THEN merge_items(b, Tail(items), merged_count)
            ELSE IF error # "ok"
                 THEN [bottles |-> b, merged_count |-> merged_count, raised |-> error]
            ELSE merge_items(store_entry(b, key, e), Tail(items), merged_count + 1)

\* HashFileManager.merge_with_external_hash_file (lines 534-588).
merge_with_external_hash_file(m, d, clock) ==
    LET external_data == IF validate_external_hash_file(d) THEN d
                         ELSE migrate_external_hash_file(d, clock)
        merged == merge_items(m.bottles, get(external_data, "bottles", <<>>), 0)
    IN [manager |-> [bottles |-> merged.bottles,
                     last_updated |-> IF merged.raised = "none" /\ merged.merged_count > 0
                                      THEN clock ELSE m.last_updated],
        returned |-> merged.merged_count,
        raised |-> merged.raised]

\* '.bottle.tar.gz'.
BottleSuffix == <<".", "bottle", ".", "tar", ".", "gz">>

\* datetime.strptime(date_folder, '%Y-%m-%d') succeeds (lines 788-792).
is_date_folder(folder) == Len(folder) = 1 /\ IsYMD(folder[1])

\* Faulty variant: a rebuilt entry carries a digest.
RebuiltWithDigest == HexA

\* sha256="unknown" (line 826): the digest cannot be had from the metadata.
rebuilt_sha256 == "unknown"

\* The loop of rebuild_from_s3_metadata (lines 773-830) over the listed
\* objects: the map built, and the exception that ended the loop.
RECURSIVE rebuild_items(_, _)
rebuild_items(b, objects) ==
    IF objects = <<>> THEN [bottles |-> b, raised |-> "none"]
    ELSE LET key == objects[1].key
             path_parts == split(key, "/")
             date_folder == path_parts[1]
             filename == path_parts[Len(path_parts)]
             base_name == SubSeq(filename, 1, Len(filename) - Len(BottleSuffix))
             parts == split(base_name, ".")
             platform == parts[Len(parts)]
             formula_version == join(SubSeq(parts, 1, Len(parts) - 1), ".")
             formula_parts == rsplit(formula_version, "-")
             e == HashEntry(formula_parts[1], formula_parts[2], platform, rebuilt_sha256,
                            date_folder[1], IntSize(objects[1].size))
             rest == Tail(objects)
         IN IF ~endswith(key, BottleSuffix) THEN rebuild_items(b, rest)
            ELSE IF Len(path_parts) < 2 THEN rebuild_items(b, rest)
            ELSE IF ~is_date_folder(date_folder) THEN rebuild_items(b, rest)
            ELSE IF ~endswith(filename, BottleSuffix) THEN rebuild_items(b, rest)
            ELSE IF Len(parts) < 2 THEN rebuild_items(b, rest)
            ELSE IF Len(formula_parts) # 2 THEN rebuild_items(b, rest)
            ELSE IF objects[1].metadata = "missing" THEN rebuild_items(b, rest)
            ELSE IF objects[1].metadata = "error"
                 THEN [bottles |-> b, raised |-> "Exception"]
            ELSE rebuild_items(
                     store_entry(b, bottle_key(formula_parts[1], formula_parts[2],
                                               platform), e),
                     rest)

\* Faulty variant: the entries of the map are kept and the rebuilt ones added.
RebuildOntoPriorMap(m, listing, clock) ==
    IF listing.raises THEN [manager |-> EmptyManager, returned |-> FALSE]
    ELSE LET rebuilt == rebuild_items(m.bottles, listing.objects)
         IN IF rebuilt.raised # "none"
            THEN [manager |-> [bottles |-> rebuilt.bottles, last_updated |-> None],
                  returned |-> FALSE]
            ELSE [manager |-> [bottles |-> rebuilt.bottles, last_updated |-> clock],
                  returned |-> TRUE]

\* HashFileManager.rebuild_from_s3_metadata (lines 754-840) on a manager with
\* an s3_service; listing.objects is what list_objects returns, unless it
\* raises.
rebuild_from_s3_metadata(m, listing, clock) ==
    IF listing.raises THEN [manager |-> EmptyManager, returned |-> FALSE]
    ELSE LET rebuilt == rebuild_items(<<>>, listing.objects)
         IN IF rebuilt.raised # "none"
            THEN [manager |-> [bottles |-> rebuilt.bottles, last_updated |-> None],
                  returned |-> FALSE]
            ELSE [manager |-> [bottles |-> rebuilt.bottles, last_updated |-> clock],
                  returned |-> TRUE]

\* The items of the "bottles" object of to_dict() (lines 256-259), one per
\* entry of the map, listed in some order.
RECURSIVE bottles_to_items(_)
bottles_to_items(b) ==
    IF DOMAIN b = {} THEN <<>>
    ELSE LET k == CHOOSE key \in DOMAIN b : TRUE
         IN <<Item(k, entry_to_dict(b[k]))>>
            \o bottles_to_items([key \in DOMAIN b \ {k} |-> b[key]])

\* HashFileManager.to_dict (lines 252-260): an unset last_updated is replaced
\* by the current time.
manager_to_dict(m, clock) ==
    [last_updated |-> IF m.last_updated = None THEN clock ELSE m.last_updated,
     bottles |-> bottles_to_items(m.bottles)]

\* 10 * 1024 * 1024 * 1024 bytes (line 722), in units of 2^20 bytes.
TenGiB == 10 * 1024

\* A last_updated value that is no string and not falsy (a JSON number).
NonString == -3

\* Line 722: entry.file_size <= 0 or entry.file_size > 10 GiB.
unreasonable_size(size) == size.n <= 0 \/ size.n > TenGiB

\* HashFileManager.detect_corruption (lines 679-752) on the day `today`: what
\* it returns, or the exception that leaves it. validate() raises ValueError
\* for an entry that HashEntry.validate rejects, which the handler of lines
\* 749-752 turns into True; TypeError and AttributeError are not caught.
detect_corruption(m, today) ==
    LET keys == DOMAIN m.bottles
        b == m.bottles
    IN IF \E k \in keys : entry_validate(b[k]) = "ValueError"
         THEN [returned |-> TRUE, raised |-> "none"]
       ELSE IF \E k \in keys : entry_validate(b[k]) = "TypeError"
         THEN [returned |-> FALSE, raised |-> "TypeError"]
       ELSE IF m.last_updated = None
         THEN [returned |-> TRUE, raised |-> "none"]
       ELSE IF m.last_updated = NonString
         THEN [returned |-> FALSE, raised |-> "AttributeError"]
       ELSE IF ~IsTimestamp(m.last_updated)
         THEN [returned |-> TRUE, raised |-> "none"]
       ELSE IF \E k \in keys :
                 bottle_key(b[k].formula_name, b[k].version, b[k].platform) # k
         THEN [returned |-> TRUE, raised |-> "none"]
       ELSE IF \E k \in keys : unreasonable_size(b[k].file_size)
         THEN [returned |-> TRUE, raised |-> "none"]
       ELSE IF \E k \in keys : ~IsYMD(b[k].download_date)
         THEN [returned |-> TRUE, raised |-> "none"]
       ELSE IF \E k \in keys : toordinal(b[k].download_date) > toordinal(today)
         THEN [returned |-> TRUE, raised |-> "none"]
       ELSE [returned |-> FALSE, raised |-> "none"]

\* ------------------------------------------- HashFileManager: drawn arguments
FooName == <<"foo">>
FooBarName == <<"foo", "-", "bar">>
PlainVersion == <<"1", ".", "0">>
HyphenVersion == <<"1", "-", "rc">>
Arm64 == <<"arm64">>

BaseArgs ==
    [name |-> FooName, version |-> PlainVersion, platform |-> Arm64, sha256 |-> HexA,
     date |-> "2024-01-15", size |-> IntSize(1)]

\* Arguments of add_bottle: every valid combination, and the base one with
\* each field in turn replaced by each of its other values.
AddArgs ==
    {[BaseArgs EXCEPT !.name = n, !.version = v, !.sha256 = h] :
        n \in {FooName, FooBarName}, v \in {PlainVersion, HyphenVersion},
        h \in {HexA, HexB}}
    \cup {[BaseArgs EXCEPT !.name = <<>>], [BaseArgs EXCEPT !.version = <<>>],
          [BaseArgs EXCEPT !.platform = <<>>]}
    \cup {[BaseArgs EXCEPT !.sha256 = h] : h \in Shas}
    \cup {[BaseArgs EXCEPT !.date = d] : d \in Dates}
    \cup {[BaseArgs EXCEPT !.size = z] : z \in Sizes}

\* Arguments of has_bottle.
HasArgs ==
    [name : {FooName, FooBarName}, version : {PlainVersion, HyphenVersion},
     platform : {Arm64}, sha256 : {HexA, HexB, "unknown"}]

\* Keys of "bottles" in a document: two well-formed ones, one without a
\* hyphen, one with an empty version, one with a character outside the pattern.
PlainKey == bottle_key(FooName, PlainVersion, Arm64)
HyphenKey == bottle_key(FooName, HyphenVersion, Arm64)
DocKeys ==
    {PlainKey, HyphenKey, FooName, <<"foo", "-", "-", "arm64">>,
     <<"foo", "!", "-", "1", ".", "0", "-", "arm64">>}

GoodData(sha256) ==
    [sha256 |-> sha256, download_date |-> "2024-01-15", file_size |-> IntSize(1)]
DocData ==
    {GoodData(HexA), GoodData(HexB), GoodData("unknown"),
     [download_date |-> "2024-01-15", file_size |-> IntSize(1)],
     [GoodData(HexA) EXCEPT !.file_size = IntSize(0)],
     [GoodData(HexA) EXCEPT !.file_size = StrSize],
     [GoodData(HexA) EXCEPT !.download_date = "15/01/2024"],
     NotADict}
PairData == {GoodData(HexB), GoodData("unknown"),
             [GoodData(HexA) EXCEPT !.file_size = StrSize], NotADict}

ItemLists ==
    {<<>>}
    \cup {<<Item(k, d)>> : k \in DocKeys, d \in DocData}
    \cup {<<Item(PlainKey, d1), Item(HyphenKey, d2)>> : d1 \in PairData, d2 \in PairData}

\* Documents handed to load_from_dict and merge_with_external_hash_file.
Documents ==
    {[last_updated |-> 0, bottles |-> items] : items \in ItemLists}
    \cup {[bottles |-> <<Item(PlainKey, GoodData(HexA))>>],
          [last_updated |-> None, bottles |-> <<Item(PlainKey, GoodData(HexA))>>],
          [last_updated |-> Unparseable, bottles |-> <<Item(PlainKey, GoodData(HexA))>>],
          [last_updated |-> 0]}

\* Object keys in the bucket.
DateFolder == <<"2024-01-15">>
PlainFile == <<"foo", "-", "1", ".", "0", ".", "arm64">> \o BottleSuffix
HyphenFile == <<"foo", "-", "bar", "-", "1", "-", "rc", ".", "arm64">> \o BottleSuffix
ObjectKeys ==
    {DateFolder \o <<"/">> \o PlainFile,
     DateFolder \o <<"/">> \o HyphenFile,
     <<"backups", "/", "bottles_hash", ".", "json">>,
     PlainFile,
     <<"latest", "/">> \o PlainFile,
     DateFolder \o <<"/", "sub", "/">> \o PlainFile,
     DateFolder \o <<"/", "foo", ".", "arm64">> \o BottleSuffix,
     DateFolder \o <<"/", "foo", "-", "1">> \o BottleSuffix,
     DateFolder \o <<"/", "-", "1", ".", "arm64">> \o BottleSuffix}

Object(key, size, metadata) == [key |-> key, size |-> size, metadata |-> metadata]
Objects ==
    {Object(k, 1, "available") : k \in ObjectKeys}
    \cup {Object(DateFolder \o <<"/">> \o PlainFile, 0, "available"),
          Object(DateFolder \o <<"/">> \o PlainFile, 1, "missing"),
          Object(DateFolder \o <<"/">> \o PlainFile, 1, "error")}

\* What list_objects gives rebuild_from_s3_metadata.
Listings ==
    {[raises |-> TRUE, objects |-> <<>>], [raises |-> FALSE, objects |-> <<>>]}
    \cup {[raises |-> FALSE, objects |-> <<o>>] : o \in Objects}
    \cup {[raises |-> FALSE,
           objects |-> <<Object(DateFolder \o <<"/">> \o HyphenFile, 1, "available"), o>>] :
              o \in {x \in Objects : x.key # DateFolder \o <<"/">> \o HyphenFile}}

\* --------------------------------------------- HashFileManager: the calls
Fits(m) == Cardinality(DOMAIN m.bottles) <= MaxEntries

\* manager.add_bottle(formula, platform, bottle, download_date).
AddBottle ==
    \E a \in AddArgs :
      LET r == manager_add_bottle(manager, a.name, a.version, a.platform, a.sha256,
                                  a.date, a.size)
      IN /\ Fits(r.manager)
         /\ manager' = r.manager
         /\ manager_call' =
              [op |-> "add_bottle", args |-> a, raised |-> r.raised,
               repeats |-> IF manager_call.op = "add_bottle" /\ manager_call.args = a
                           THEN 2 ELSE 1]
         /\ UNCHANGED <<saveVars, retryVars, pureVars, delayVars, recoveryVars, ladderVars, workerVars>>

\* manager.has_bottle(formula, platform, bottle).
HasBottle ==
    \E a \in HasArgs :
      /\ manager_call' =
           [op |-> "has_bottle", args |-> a,
            returned |-> has_bottle(manager, a.name, a.version, a.platform, a.sha256)]
      /\ UNCHANGED manager
      /\ UNCHANGED <<saveVars, retryVars, pureVars, delayVars, recoveryVars, ladderVars, workerVars>>

\* manager.load_from_dict(data).
LoadFromDict ==
    \E d \in Documents :
      LET r == load_from_dict(manager, d)
      IN /\ Fits(r.manager)
         /\ manager' = r.manager
         /\ manager_call' = [op |-> "load_from_dict", raised |-> r.raised]
         /\ UNCHANGED <<saveVars, retryVars, pureVars, delayVars, recoveryVars, ladderVars, workerVars>>

\* manager.merge_with_external_hash_file(external_data).
MergeWithExternalHashFile ==
    \E d \in Documents :
      LET r == merge_with_external_hash_file(manager, d, utcnow)
      IN /\ Fits(r.manager)
         /\ manager' = r.manager
         /\ manager_call' = [op |-> "merge_with_external_hash_file",
                             returned |-> r.returned, raised |-> r.raised]
         /\ UNCHANGED <<saveVars, retryVars, pureVars, delayVars, recoveryVars, ladderVars, workerVars>>

\* manager.rebuild_from_s3_metadata().
RebuildFromS3Metadata ==
    \E listing \in Listings :
      LET r == rebuild_from_s3_metadata(manager, listing, utcnow)
      IN /\ Fits(r.manager)
         /\ manager' = r.manager
         /\ manager_call' = [op |-> "rebuild_from_s3_metadata", returned |-> r.returned,
                             listing |-> listing]
         /\ UNCHANGED <<saveVars, retryVars, pureVars, delayVars, recoveryVars, ladderVars, workerVars>>

\* Arguments of add_bottle for detect_corruption: every download date and the
\* sizes around the 10 GiB limit.
DatedArgs ==
    {[BaseArgs EXCEPT !.version = v, !.date = d, !.size = z] :
        v \in {PlainVersion, HyphenVersion}, d \in {Today, OldDate, FutureDate},
        z \in {IntSize(1), IntSize(TenGiB), IntSize(TenGiB + 1)}}

\* manager.add_bottle with a download date and a size out of DatedArgs.
AddDatedBottle ==
    \E a \in DatedArgs :
      LET r == manager_add_bottle(manager, a.name, a.version, a.platform, a.sha256,
                                  a.date, a.size)
      IN /\ Fits(r.manager)
         /\ manager' = r.manager
         /\ manager_call' = [op |-> "add_bottle", args |-> a, raised |-> r.raised,
                             repeats |-> 1]
         /\ UNCHANGED <<saveVars, retryVars, pureVars, delayVars, recoveryVars, ladderVars, workerVars>>

\* Documents whose last_updated is a timestamp, null, text that is no
\* timestamp, a number, or missing.
StampedDocuments ==
    {[last_updated |-> lu, bottles |-> items] :
        lu \in {0, None, Unparseable, NonString},
        items \in {<<>>, <<Item(PlainKey, GoodData(HexA))>>,
                   <<Item(PlainKey, GoodData(HexA)), Item(HyphenKey, GoodData("unknown"))>>}}
    \cup {[bottles |-> <<Item(PlainKey, GoodData(HexA))>>]}

\* manager.load_from_dict(data) with a document out of StampedDocuments.
LoadStampedDocument ==
    \E d \in StampedDocuments :
      LET r == load_from_dict(manager, d)
      IN /\ manager' = r.manager
         /\ manager_call' = [op |-> "load_from_dict", raised |-> r.raised]
         /\ UNCHANGED <<saveVars, retryVars, pureVars, delayVars, recoveryVars, ladderVars, workerVars>>

\* manager.bottles[key] = entry by a caller (bottles is a public attribute):
\* a valid entry is stored under the key of another bottle.
AssignEntry ==
    LET e == HashEntry(FooName, PlainVersion, Arm64, HexA, Today, IntSize(1))
    IN /\ Fits([manager EXCEPT !.bottles = store_entry(@, HyphenKey, e)])
       /\ manager' = [manager EXCEPT !.bottles = store_entry(@, HyphenKey, e)]
       /\ manager_call' = [op |-> "assign_entry"]
       /\ UNCHANGED <<saveVars, retryVars, pureVars, delayVars, recoveryVars, ladderVars, workerVars>>

\* manager.detect_corruption().
DetectCorruption ==
    LET r == detect_corruption(manager, Today)
    IN /\ manager_call' = [op |-> "detect_corruption", returned |-> r.returned,
                           raised |-> r.raised]
       /\ UNCHANGED manager
       /\ UNCHANGED <<saveVars, retryVars, pureVars, delayVars, recoveryVars, ladderVars, workerVars>>

CorruptionNext ==
    \/ AddDatedBottle
    \/ LoadStampedDocument
    \/ RebuildFromS3Metadata
    \/ AssignEntry
    \/ DetectCorruption

\* manager.merge_with_external_hash_file(external_data), the call remembering
\* the document it was given.
MergeExternalDocument ==
    \E d \in Documents :
      \E r \in {merge_with_external_hash_file(manager, d, utcnow)} :
         /\ Fits(r.manager)
         /\ manager' = r.manager
         /\ manager_call' = [op |-> "merge_with_external_hash_file",
                             returned |-> r.returned, raised |-> r.raised,
                             document |-> d]
         /\ UNCHANGED <<saveVars, retryVars, pureVars, delayVars, recoveryVars, ladderVars, workerVars>>

\* Local bottles are added, then external documents are merged into them.
MergeNext ==
    \/ AddDatedBottle
    \/ MergeExternalDocument

\* The calls that store entries they have validated.
ValidatingNext ==
    \/ AddBottle
    \/ LoadFromDict
    \/ MergeWithExternalHashFile

ManagerNext ==
    \/ AddBottle
    \/ HasBottle
    \/ LoadFromDict
    \/ MergeWithExternalHashFile
    \/ RebuildFromS3Metadata

\* ------------------------------ OrchestrationService.load_existing_hash_file
\* The try blocks around load_from_dict in load_from_s3 (models.py lines
\* 366-374 and 378-384) and in load_from_url (lines 304-320): nothing is loaded
\* when the download gave no document (NoDoc); ValueError and KeyError of
\* load_from_dict are swallowed, any other exception leaves the method. The
\* manager keeps what load_from_dict assigned before it raised.
after_load(r) ==
    IF r.raised = "none"
      THEN [manager |-> r.manager, returned |-> TRUE, raised |-> "none"]
    ELSE IF r.raised \in {"ValueError", "KeyError"}
      THEN [manager |-> r.manager, returned |-> FALSE, raised |-> "none"]
    ELSE [manager |-> r.manager, returned |-> FALSE, raised |-> r.raised]

try_load(m, d) ==
    IF d = NoDoc THEN [manager |-> m, returned |-> FALSE, raised |-> "none"]
    ELSE after_load(load_from_dict(m, d))

\* HashFileManager.load_from_s3 (models.py lines 341-386); ext and can are
\* what download_json returns for the external and for the canonical key.
fall_back(first, can) ==
    IF first.returned \/ first.raised # "none" THEN first
    ELSE try_load(first.manager, can)

load_from_s3(m, external_key, ext, can) ==
    fall_back(IF external_key THEN try_load(m, ext)
              ELSE [manager |-> m, returned |-> FALSE, raised |-> "none"],
              can)

\* HashFileManager.load_from_url (models.py lines 290-320); response is the
\* document of response.json(), or NoDoc when the request or the parse failed.
load_from_url(m, response) == try_load(m, response)

\* SyncConfig: which external hash file is configured.
SyncConfigs == {"none", "url", "s3_key"}

\* HashFileManager.load_external_hash_file (models.py lines 322-339).
load_external_hash_file(m, sync_config, ext, can) ==
    IF sync_config = "url" THEN load_from_url(m, ext)
    ELSE IF sync_config = "s3_key" THEN load_from_s3(m, TRUE, ext, can)
    ELSE [manager |-> m, returned |-> FALSE, raised |-> "none"]

\* What head_object does in object_exists (s3_service.py lines 173-192):
\* "found"; "not_found" (404) and "client_error" (any other ClientError), which
\* both make object_exists return False; "raises" for an error that is no
\* ClientError.
HeadOutcomes(b) ==
    IF b.canonical = NoDoc THEN {"not_found", "client_error", "raises"}
    ELSE {"found", "client_error", "raises"}

\* HashFileManager.backup_current_hash_file (models.py lines 661-677) with
\* _copy_s3_object (lines 634-659), which returns False for a failed copy.
backup_current_hash_file(b, head, copy_ok) ==
    IF head = "raises"
      THEN [bucket |-> b, returned |-> FALSE, raised |-> "Exception", copy |-> "not_called"]
    ELSE IF head # "found"
      THEN [bucket |-> b, returned |-> TRUE, raised |-> "none", copy |-> "not_called"]
    ELSE IF copy_ok
      THEN [bucket |-> [b EXCEPT !.backup = b.canonical], returned |-> TRUE,
            raised |-> "none", copy |-> "ok"]
    ELSE [bucket |-> b, returned |-> FALSE, raised |-> "none", copy |-> "failed"]

\* Documents in the bucket: one that loads and is sound; one with a null
\* last_updated; one whose second entry fails validation; one whose entry is
\* no object; one whose last_updated is a number.
DocumentKinds == {"sound", "unstamped", "second_invalid", "not_a_dict", "number"}
LadderDocument(kind, sha256) ==
    CASE kind = "sound" ->
           [last_updated |-> 0, bottles |-> <<Item(PlainKey, GoodData(sha256))>>]
      [] kind = "unstamped" ->
           [last_updated |-> None, bottles |-> <<Item(PlainKey, GoodData(sha256))>>]
      [] kind = "second_invalid" ->
           [last_updated |-> 0,
            bottles |-> <<Item(PlainKey, GoodData(sha256)),
                          Item(HyphenKey, GoodData("unknown"))>>]
      [] kind = "not_a_dict" ->
           [last_updated |-> 0, bottles |-> <<Item(PlainKey, NotADict)>>]
      [] kind = "number" ->
           [last_updated |-> NonString, bottles |-> <<Item(PlainKey, GoodData(sha256))>>]
ExternalDocuments == {LadderDocument(k, HexB) : k \in DocumentKinds}
CanonicalDocuments == {LadderDocument(k, HexA) : k \in DocumentKinds}

\* One call made by load_existing_hash_file: what it returned, the exception
\* that left it, and what the bucket did during it.
Call(op, returned, raised, env) ==
    [op |-> op, returned |-> returned, raised |-> raised, env |-> env]
Env(ext, can, head, copy) == [ext |-> ext, can |-> can, head |-> head, copy |-> copy]
NoEnv == Env(FALSE, FALSE, "none", "not_called")

Called(c) == [ladder EXCEPT !.calls = Append(@, c)]

\* Where a raised exception goes: into `except Exception` (handler.py lines
\* 136-139).
after_raise(l, exc) == [l EXCEPT !.pc = "except", !.exception = exc]

\* Faulty variant: the handler only expects parse errors.
HandlesParseErrorsOnly(exc) == exc \in {"ValueError", "KeyError"}

\* `except Exception` (handler.py line 136) handles every exception the calls
\* raise.
handled(exc) == TRUE

\* Faulty variant: a corrupted canonical file is rebuilt without a backup.
RebuildWithoutBackup(corrupted) == IF corrupted THEN "rebuild" ELSE "return"

\* handler.py lines 123-125: after detect_corruption on the canonical file.
after_canonical_detect(corrupted) == IF corrupted THEN "backup" ELSE "return"

\* handler.py lines 100-116: the external source, if one is configured.
LadderLoadExternal ==
    /\ ladder.pc = "start"
    /\ IF ladder.sync_config = "none"
         THEN /\ ladder' = [ladder EXCEPT !.pc = "canonical"]
              /\ UNCHANGED manager
         ELSE \E ext \in {bucket.external, NoDoc}, can \in {bucket.canonical, NoDoc} :
                \E r \in {load_external_hash_file(manager, ladder.sync_config, ext, can)} :
                \E l \in {Called(Call("load_external_hash_file", r.returned, r.raised,
                                      Env(ext # NoDoc, can # NoDoc, "none", "not_called")))} :
                   /\ manager' = r.manager
                   /\ ladder' = IF r.raised # "none" THEN after_raise(l, r.raised)
                                ELSE IF r.returned
                                  THEN [l EXCEPT !.pc = "detect_external",
                                                 !.external_loaded = TRUE]
                                ELSE [l EXCEPT !.pc = "canonical"]
    /\ UNCHANGED <<saveVars, retryVars, pureVars, delayVars, recoveryVars,
                   manager_call, bucket, workerVars>>

\* handler.py lines 109-113: detect_corruption on the external document.
LadderDetectExternal ==
    /\ ladder.pc = "detect_external"
    /\ \E r \in {detect_corruption(manager, Today)} :
       \E l \in {Called(Call("detect_corruption", r.returned, r.raised, NoEnv))} :
          IF r.raised # "none"
            THEN ladder' = after_raise(l, r.raised) /\ UNCHANGED manager
          ELSE IF r.returned
            THEN /\ ladder' = [l EXCEPT !.pc = "canonical", !.external_loaded = FALSE]
                 /\ manager' = EmptyManager
          ELSE ladder' = [l EXCEPT !.pc = "return"] /\ UNCHANGED manager
    /\ UNCHANGED <<saveVars, retryVars, pureVars, delayVars, recoveryVars,
                   manager_call, bucket, workerVars>>

\* handler.py lines 118-119 and 133-134: load_from_s3() of the canonical key.
LadderLoadCanonical ==
    /\ ladder.pc = "canonical"
    /\ ~ladder.external_loaded
    /\ \E can \in {bucket.canonical, NoDoc} :
         \E r \in {load_from_s3(manager, FALSE, NoDoc, can)} :
         \E l \in {Called(Call("load_from_s3", r.returned, r.raised,
                               Env(FALSE, can # NoDoc, "none", "not_called")))} :
            /\ manager' = r.manager
            /\ ladder' = IF r.raised # "none" THEN after_raise(l, r.raised)
                         ELSE IF r.returned THEN [l EXCEPT !.pc = "detect_canonical"]
                         ELSE [l EXCEPT !.pc = "return"]
    /\ UNCHANGED <<saveVars, retryVars, pureVars, delayVars, recoveryVars,
                   manager_call, bucket, workerVars>>

\* handler.py lines 122-123: detect_corruption on the canonical document.
LadderDetectCanonical ==
    /\ ladder.pc = "detect_canonical"
    /\ \E r \in {detect_corruption(manager, Today)} :
       \E l \in {Called(Call("detect_corruption", r.returned, r.raised, NoEnv))} :
          ladder' = IF r.raised # "none" THEN after_raise(l, r.raised)
                    ELSE [l EXCEPT !.pc = after_canonical_detect(r.returned)]
    /\ UNCHANGED <<saveVars, retryVars, pureVars, delayVars, recoveryVars,
                   managerVars, bucket, workerVars>>

\* handler.py line 125: backup_current_hash_file(), its result unused.
LadderBackup ==
    /\ ladder.pc = "backup"
    /\ \E head \in HeadOutcomes(bucket), copy_ok \in BOOLEAN :
         \E r \in {backup_current_hash_file(bucket, head, copy_ok)} :
         \E l \in {Called(Call("backup_current_hash_file", r.returned, r.raised,
                               Env(FALSE, FALSE, head, r.copy)))} :
            /\ bucket' = r.bucket
            /\ ladder' = IF r.raised # "none" THEN after_raise(l, r.raised)
                         ELSE [l EXCEPT !.pc = "rebuild"]
    /\ UNCHANGED <<saveVars, retryVars, pureVars, delayVars, recoveryVars, managerVars, workerVars>>

\* handler.py lines 128-132: rebuild_from_s3_metadata(), and an empty manager
\* when it returns False.
LadderRebuild ==
    /\ ladder.pc = "rebuild"
    /\ \E listing \in Listings :
         \E r \in {rebuild_from_s3_metadata(manager, listing, utcnow)} :
            /\ manager' = IF r.returned THEN r.manager ELSE EmptyManager
            /\ ladder' = [Called(Call("rebuild_from_s3_metadata", r.returned, "none", NoEnv))
                            EXCEPT !.pc = "return"]
    /\ UNCHANGED <<saveVars, retryVars, pureVars, delayVars, recoveryVars,
                   manager_call, bucket, workerVars>>

\* handler.py lines 136-139: the exception is logged and the manager replaced
\* by an empty one.
LadderExcept ==
    /\ ladder.pc = "except"
    /\ IF handled(ladder.exception)
         THEN /\ manager' = EmptyManager
              /\ ladder' = [ladder EXCEPT !.pc = "return"]
         ELSE /\ ladder' = [ladder EXCEPT !.pc = "raised"]
              /\ UNCHANGED manager
    /\ UNCHANGED <<saveVars, retryVars, pureVars, delayVars, recoveryVars,
                   manager_call, bucket, workerVars>>

\* handler.py line 141: return hash_manager.
LadderReturn ==
    /\ ladder.pc = "return"
    /\ ladder' = [ladder EXCEPT !.pc = "done"]
    /\ UNCHANGED <<saveVars, retryVars, pureVars, delayVars, recoveryVars,
                   managerVars, bucket, workerVars>>

LadderNext ==
    \/ LadderLoadExternal
    \/ LadderDetectExternal
    \/ LadderLoadCanonical
    \/ LadderDetectCanonical
    \/ LadderBackup
    \/ LadderRebuild
    \/ LadderExcept
    \/ LadderReturn

\* ------------------------------------------------ ECSBottleDownloader.run
MaxPlan == 2

\* The bottles of the formulas fetched from the Homebrew API, one bottle each.
OfferedBottles ==
    {[formula_name |-> n, version |-> PlainVersion, platform |-> Arm64, sha256 |-> h,
      size |-> IntSize(1)] : n \in {FooName, FooBarName}, h \in {HexA, HexB}}

RECURSIVE SeqsOver(_, _)
SeqsOver(S, n) ==
    IF n = 0 THEN {<<>>}
    ELSE SeqsOver(S, n - 1)
         \cup {Append(s, x) : s \in {q \in SeqsOver(S, n - 1) : Len(q) = n - 1}, x \in S}

\* Lists of formulas with different names.
FormulaLists ==
    {s \in SeqsOver(OfferedBottles, MaxPlan) :
        \A i, j \in 1..Len(s) : i # j => s[i].formula_name # s[j].formula_name}

\* DownloadProgress(...) of _plan_downloads (lines 273-280): status "pending".
DownloadProgress(b) ==
    [formula_name |-> b.formula_name, platform |-> b.platform,
     expected_sha256 |-> b.sha256, expected_size |-> b.size, status |-> "pending"]

\* ECSBottleDownloader._plan_downloads (lines 245-288): the bottles the hash
\* manager does not hold yet.
RECURSIVE _plan_downloads(_, _)
_plan_downloads(m, formulas) ==
    IF formulas = <<>> THEN <<>>
    ELSE LET b == formulas[1]
         IN IF has_bottle(m, b.formula_name, b.version, b.platform, b.sha256)
            THEN _plan_downloads(m, Tail(formulas))
            ELSE <<DownloadProgress(b)>> \o _plan_downloads(m, Tail(formulas))

\* The loop of _update_hash_file (lines 607-622) over the values of
\* download_progress: a completed download is added with a Formula whose
\* version is "" (line 618); an exception of add_bottle leaves the loop.
RECURSIVE add_completed(_, _, _)
add_completed(m, progress_values, sync_date) ==
    IF progress_values = <<>> THEN [manager |-> m, raised |-> "none"]
    ELSE LET progress == progress_values[1]
         IN IF progress.status # "completed"
            THEN add_completed(m, Tail(progress_values), sync_date)
            ELSE LET r == manager_add_bottle(m, progress.formula_name, <<>>,
                                             progress.platform, progress.expected_sha256,
                                             sync_date, progress.expected_size)
                 IN IF r.raised # "none" THEN r
                    ELSE add_completed(r.manager, Tail(progress_values), sync_date)

\* self.download_progress (line 119): created empty, and written nowhere else
\* in the worker; _plan_downloads and _execute_downloads work on the list
\* download_plan.
download_progress_of(plan) == <<>>

\* The first download of the plan that is still pending, or 0.
NextPending(plan) ==
    IF \E i \in 1..Len(plan) : plan[i].status = "pending"
    THEN Lowest({i \in 1..Len(plan) : plan[i].status = "pending"})
    ELSE 0

\* run, lines 196-204: the downloads are planned; without any the run ends
\* with True.
EcsPlanDownloads ==
    /\ ecs_sync.pc = "plan"
    /\ \E plan \in {_plan_downloads(manager, ecs_sync.formulas)} :
         ecs_sync' = IF plan = <<>>
                     THEN [ecs_sync EXCEPT !.pc = "done", !.returned = "true"]
                     ELSE [ecs_sync EXCEPT !.pc = "download", !.download_plan = plan]
    /\ UNCHANGED <<saveVars, retryVars, pureVars, delayVars, recoveryVars, managerVars,
                   ladderVars, lambda_sync>>

\* _execute_downloads (lines 290-350) for the next download of the plan:
\* _download_bottle marks it completed or failed, and _upload_batch_to_s3
\* turns a completed one whose upload fails into a failed one. A requested
\* shutdown ends the loop over the batches (lines 315-318).
EcsExecuteDownload ==
    /\ ecs_sync.pc = "download"
    /\ IF ecs_sync.shutdown_requested \/ NextPending(ecs_sync.download_plan) = 0
       THEN ecs_sync' = [ecs_sync EXCEPT !.pc = "executed"]
       ELSE \E i \in {NextPending(ecs_sync.download_plan)} :
            \E outcome \in {"completed", "download_failed", "upload_failed"} :
               ecs_sync' =
                 [ecs_sync EXCEPT
                    !.download_plan[i].status =
                        IF outcome = "completed" THEN "completed" ELSE "failed",
                    !.completed_bottles = IF outcome = "completed" THEN @ + 1 ELSE @,
                    !.failed_bottles = IF outcome = "completed" THEN @ ELSE @ + 1]
    /\ UNCHANGED <<saveVars, retryVars, pureVars, delayVars, recoveryVars, managerVars,
                   ladderVars, lambda_sync>>

\* _signal_handler (line 138).
EcsSignal ==
    /\ ecs_sync.pc \in {"plan", "download", "executed"}
    /\ ~ecs_sync.shutdown_requested
    /\ ecs_sync' = [ecs_sync EXCEPT !.shutdown_requested = TRUE]
    /\ UNCHANGED <<saveVars, retryVars, pureVars, delayVars, recoveryVars, managerVars,
                   ladderVars, lambda_sync>>

\* run, lines 212-229, with _update_hash_file (lines 595-642): after downloads
\* without a failure and without a shutdown the completed entries of
\* download_progress are added, save_to_s3_atomic is called unless add_bottle
\* raised, and the run ends with True.
EcsUpdateHashFile ==
    /\ ecs_sync.pc = "executed"
    /\ ecs_sync.failed_bottles = 0 /\ ~ecs_sync.shutdown_requested
    /\ \E r \in {add_completed(manager, download_progress_of(ecs_sync.download_plan),
                                Today)} :
       \E success \in BOOLEAN :
          /\ manager' = r.manager
          /\ ecs_sync' =
               [ecs_sync EXCEPT
                  !.pc = "done", !.returned = "true", !.updated = TRUE,
                  !.save = IF r.raised # "none" THEN "not_called"
                           ELSE IF success THEN "true" ELSE "false",
                  !.persisted = IF r.raised = "none" /\ success
                                THEN manager_to_dict(r.manager, utcnow) ELSE @]
    /\ UNCHANGED <<saveVars, retryVars, pureVars, delayVars, recoveryVars, manager_call,
                   ladderVars, lambda_sync>>

\* run, lines 231-238: a failed download or a shutdown ends the run with False.
EcsReturnFailure ==
    /\ ecs_sync.pc = "executed"
    /\ ~(ecs_sync.failed_bottles = 0 /\ ~ecs_sync.shutdown_requested)
    /\ ecs_sync' = [ecs_sync EXCEPT !.pc = "done", !.returned = "false"]
    /\ UNCHANGED <<saveVars, retryVars, pureVars, delayVars, recoveryVars, managerVars,
                   ladderVars, lambda_sync>>

EcsNext ==
    \/ EcsPlanDownloads
    \/ EcsExecuteDownload
    \/ EcsSignal
    \/ EcsUpdateHashFile
    \/ EcsReturnFailure

\* ------------------------------------------- LambdaSyncWorker.process_formula
X86_64 == <<"x86_64">>

\* target_platforms: lists of different platforms.
TargetPlatformLists ==
    {s \in SeqsOver({Arm64, X86_64}, 2) : \A i, j \in 1..Len(s) : i # j => s[i] # s[j]}

\* formula.bottles of the formula foo 1.0: a bottle for some of the platforms.
FormulaBottles ==
    UNION {[ps -> [sha256 : {HexA, HexB}, size : {IntSize(0), IntSize(1)}]] :
             ps \in SUBSET {Arm64, X86_64}}

\* What the request of download_bottle yields: the digest of the bytes
\* received, or an exception.
Responses == {HexA, HexB, "RequestException"}

\* Faulty variant: the digest of the download is not compared.
DownloadUnverified(response, expected_sha256) == response # "RequestException"

\* download_bottle (lines 60-123): success only when the request went through
\* and calculated_sha256 equals expected_sha256 (lines 96-102).
download_bottle(response, expected_sha256) ==
    IF response = "RequestException" THEN FALSE
    ELSE response = expected_sha256

\* One call made by process_formula, as it is appended to the history.
Event(op, platform, ok, detail) ==
    [op |-> op, platform |-> platform, ok |-> ok, detail |-> detail]

\* The platform of the current iteration of the loop of line 180.
CurrentPlatform == lambda_sync.target_platforms[lambda_sync.i]

\* results[platform] = ok, then the next iteration.
NextPlatform(ls, platform, ok) ==
    [ls EXCEPT !.pc = "check", !.i = @ + 1,
               !.results = (platform :> ok) @@ @]

\* process_formula, lines 180-197: the top of an iteration. A platform without
\* a bottle is passed over; a bottle the hash manager has is skipped with
\* results[platform] = True; any other bottle is downloaded next.
LambdaCheckBottle ==
    /\ lambda_sync.pc = "check"
    /\ lambda_sync.i <= Len(lambda_sync.target_platforms)
    /\ \E platform \in {CurrentPlatform} :
         IF platform \notin DOMAIN lambda_sync.bottles
         THEN lambda_sync' = [lambda_sync EXCEPT !.i = @ + 1]
         ELSE \E has \in {has_bottle(manager, FooName, PlainVersion, platform,
                                     lambda_sync.bottles[platform].sha256)} :
                lambda_sync' =
                  IF has
                  THEN [NextPlatform(lambda_sync, platform, TRUE) EXCEPT
                          !.events = Append(@, Event("has_bottle", platform, TRUE, ""))]
                  ELSE [lambda_sync EXCEPT
                          !.pc = "download",
                          !.events = Append(@, Event("has_bottle", platform, FALSE, ""))]
    /\ UNCHANGED <<saveVars, retryVars, pureVars, delayVars, recoveryVars, managerVars,
                   ladderVars, ecs_sync>>

\* process_formula, lines 203-211: download_bottle; a failure sets
\* results[platform] = False and goes on with the next platform.
LambdaDownloadBottle ==
    /\ lambda_sync.pc = "download"
    /\ \E platform \in {CurrentPlatform} :
       \E response \in Responses :
       \E success \in {download_bottle(response, lambda_sync.bottles[platform].sha256)} :
         lambda_sync' =
           IF success
           THEN [lambda_sync EXCEPT
                   !.pc = "upload",
                   !.events = Append(@, Event("download_bottle", platform, TRUE, response))]
           ELSE [NextPlatform(lambda_sync, platform, FALSE) EXCEPT
                   !.events = Append(@, Event("download_bottle", platform, FALSE, response))]
    /\ UNCHANGED <<saveVars, retryVars, pureVars, delayVars, recoveryVars, managerVars,
                   ladderVars, ecs_sync>>

\* process_formula, lines 213-220: upload_bottle_to_s3; a failure sets
\* results[platform] = False and goes on with the next platform.
LambdaUploadBottle ==
    /\ lambda_sync.pc = "upload"
    /\ \E platform \in {CurrentPlatform} :
       \E uploaded \in BOOLEAN :
         lambda_sync' =
           IF uploaded
           THEN [lambda_sync EXCEPT
                   !.pc = "add",
                   !.events = Append(@, Event("upload_bottle_to_s3", platform, TRUE, ""))]
           ELSE [NextPlatform(lambda_sync, platform, FALSE) EXCEPT
                   !.events = Append(@, Event("upload_bottle_to_s3", platform, FALSE, ""))]
    /\ UNCHANGED <<saveVars, retryVars, pureVars, delayVars, recoveryVars, managerVars,
                   ladderVars, ecs_sync>>

\* process_formula, lines 222-229: hash_manager.add_bottle, whose exception
\* leaves process_formula; otherwise results[platform] = True.
LambdaAddBottle ==
    /\ lambda_sync.pc = "add"
    /\ \E platform \in {CurrentPlatform} :
       \E r \in {manager_add_bottle(manager, FooName, PlainVersion, platform,
                                    lambda_sync.bottles[platform].sha256, Today,
                                    lambda_sync.bottles[platform].size)} :
         /\ manager' = r.manager
         /\ lambda_sync' =
              IF r.raised = "none"
              THEN [NextPlatform(lambda_sync, platform, TRUE) EXCEPT
                      !.events = Append(@, Event("add_bottle", platform, TRUE, ""))]
              ELSE [lambda_sync EXCEPT
                      !.pc = "raised", !.raised = r.raised,
                      !.events = Append(@, Event("add_bottle", platform, FALSE, ""))]
    /\ UNCHANGED <<saveVars, retryVars, pureVars, delayVars, recoveryVars, manager_call,
                   ladderVars, ecs_sync>>

\* process_formula, line 239: return results after the last platform.
LambdaReturnResults ==
    /\ lambda_sync.pc = "check"
    /\ lambda_sync.i > Len(lambda_sync.target_platforms)
    /\ lambda_sync' = [lambda_sync EXCEPT !.pc = "done"]
    /\ UNCHANGED <<saveVars, retryVars, pureVars, delayVars, recoveryVars, managerVars,
                   ladderVars, ecs_sync>>

LambdaNext ==
    \/ LambdaCheckBottle
    \/ LambdaDownloadBottle
    \/ LambdaUploadBottle
    \/ LambdaAddBottle
    \/ LambdaReturnResults

\* ------------------------------------------------------------ specifications
SaveIdle(ws) ==
    /\ writers = ws
    /\ now = 0
    /\ store = [k \in Keys |-> NoDoc]
    /\ pc = [p \in Procs |-> "idle"]
    /\ bottles = [p \in Procs |-> {}]
    /\ last_updated = [p \in Procs |-> None]
    /\ data = [p \in Procs |-> NoDoc]
    /\ result = [p \in Procs |-> "none"]
    /\ hist = [p \in Procs |-> NoHist]

RetryIdle(st) ==
    /\ attempt = [c \in Calls |-> 1]
    /\ status = [c \in Calls |-> st]
    /\ last_exception = [c \in Calls |-> NoException]
    /\ retval = [c \in Calls |-> NoValue]
    /\ outcomes = [c \in Calls |-> <<>>]
    /\ sleeps = [c \in Calls |-> <<>>]
    /\ metrics = [c \in Calls |-> <<>>]

PureIdle ==
    /\ in_error = NoError
    /\ in_attempt = 0
    /\ out = NotApplied

DefaultConfig ==
    [base_delay |-> Rat(1, 1), max_delay |-> Rat(60, 1), exponential_base |-> Rat(2, 1),
     jitter |-> TRUE, backoff_multiplier |-> Rat(1, 1)]

DelayIdle ==
    /\ config = DefaultConfig
    /\ delays = <<>>

NoCall == [op |-> "none"]

ManagerIdle ==
    /\ manager = EmptyManager
    /\ manager_call = NoCall

EmptyBucket == [external |-> NoDoc, canonical |-> NoDoc, backup |-> NoDoc]

LadderIdle ==
    /\ bucket = EmptyBucket
    /\ ladder = [pc |-> "idle"]

WorkerIdle ==
    /\ ecs_sync = [pc |-> "idle"]
    /\ lambda_sync = [pc |-> "idle"]

RecoveryIdle ==
    /\ recovery_store = [k \in RecoveryKeys |-> NoDoc]
    /\ recovery_state = NoDoc
    /\ utcnow = 0
    /\ saved_arg = NoDoc
    /\ recovery_call = NoCall

\* Two processes save to the same bucket.
InitSave ==
    /\ SaveIdle(Procs) /\ max_attempts = 1 /\ RetryIdle("unused") /\ PureIdle
    /\ DelayIdle /\ RecoveryIdle /\ ManagerIdle /\ LadderIdle /\ WorkerIdle
SpecSave == InitSave /\ [][SaveNext]_vars

\* A single writer.
InitSaveSingle ==
    /\ SaveIdle({"p1"}) /\ max_attempts = 1 /\ RetryIdle("unused") /\ PureIdle
    /\ DelayIdle /\ RecoveryIdle /\ ManagerIdle /\ LadderIdle /\ WorkerIdle
SpecSaveSingle == InitSaveSingle /\ [][CrashNext]_vars

\* One retry_sync and one retry_async call on the same RetryHandler.
InitRetry ==
    /\ SaveIdle({})
    /\ max_attempts \in 1..MaxAttempts
    /\ RetryIdle("running")
    /\ PureIdle
    /\ DelayIdle /\ RecoveryIdle /\ ManagerIdle /\ LadderIdle /\ WorkerIdle
SpecRetry == InitRetry /\ [][RetryNext]_vars

\* should_retry, classify_error and determine_recovery_action on every input.
InitPure ==
    /\ SaveIdle({})
    /\ max_attempts \in 1..MaxAttempts
    /\ RetryIdle("unused")
    /\ in_error \in InputErrors
    /\ in_attempt \in 1..MaxAttemptArg
    /\ out = NotApplied
    /\ DelayIdle /\ RecoveryIdle /\ ManagerIdle /\ LadderIdle /\ WorkerIdle
SpecPure == InitPure /\ [][PureNext]_vars

\* calculate_delay for attempts 0, 1, 2, ... under every drawn RetryConfig.
InitDelay ==
    /\ SaveIdle({}) /\ max_attempts = 1 /\ RetryIdle("unused") /\ PureIdle
    /\ config \in RetryConfigs
    /\ delays = <<>>
    /\ RecoveryIdle /\ ManagerIdle /\ LadderIdle /\ WorkerIdle
SpecDelay == InitDelay /\ [][DelayNext]_vars

\* update_progress calls on a fresh RecoveryState.
InitProgress ==
    /\ SaveIdle({}) /\ max_attempts = 1 /\ RetryIdle("unused") /\ PureIdle /\ DelayIdle
    /\ recovery_store = [k \in RecoveryKeys |-> NoDoc]
    /\ utcnow = 0
    /\ recovery_state = RecoveryState("sync-1", Aware(utcnow))
    /\ saved_arg = NoDoc
    /\ recovery_call = NoCall
    /\ ManagerIdle /\ LadderIdle /\ WorkerIdle
SpecProgress == InitProgress /\ [][ProgressNext]_vars

\* The recovery handler on a bucket that holds any object under the recovery
\* key, at a time around the end of the resume window.
InitResume ==
    /\ SaveIdle({}) /\ max_attempts = 1 /\ RetryIdle("unused") /\ PureIdle /\ DelayIdle
    /\ recovery_store \in [RecoveryKeys -> StoredObjects]
    /\ utcnow \in ClockValues
    /\ recovery_state = NoDoc
    /\ saved_arg = NoDoc
    /\ recovery_call = NoCall
    /\ ManagerIdle /\ LadderIdle /\ WorkerIdle
SpecResume == InitResume /\ [][ResumeNext]_vars

\* Calls on one HashFileManager, starting empty; the clock stands after the
\* timestamps of the documents.
InitManager ==
    /\ SaveIdle({}) /\ max_attempts = 1 /\ RetryIdle("unused") /\ PureIdle /\ DelayIdle
    /\ recovery_store = [k \in RecoveryKeys |-> NoDoc]
    /\ recovery_state = NoDoc
    /\ utcnow = 1
    /\ saved_arg = NoDoc
    /\ recovery_call = NoCall
    /\ manager = EmptyManager
    /\ manager_call = NoCall
    /\ LadderIdle /\ WorkerIdle
SpecManager == InitManager /\ [][ManagerNext]_vars
SpecValidating == InitManager /\ [][ValidatingNext]_vars
SpecMerge == InitManager /\ [][MergeNext]_vars

\* load_existing_hash_file(sync_config) on a fresh HashFileManager, for every
\* sync_config and every content of the external source and the canonical key.
InitLadder ==
    /\ SaveIdle({}) /\ max_attempts = 1 /\ RetryIdle("unused") /\ PureIdle /\ DelayIdle
    /\ recovery_store = [k \in RecoveryKeys |-> NoDoc]
    /\ recovery_state = NoDoc
    /\ utcnow = 1
    /\ saved_arg = NoDoc
    /\ recovery_call = NoCall
    /\ manager = EmptyManager
    /\ manager_call = NoCall
    /\ bucket \in [external : ExternalDocuments \cup {NoDoc},
                   canonical : CanonicalDocuments \cup {NoDoc},
                   backup : {NoDoc}]
    /\ ladder \in [pc : {"start"}, sync_config : SyncConfigs, external_loaded : {FALSE},
                   calls : {<<>>}, exception : {"none"}]
    /\ WorkerIdle
SpecLadder == InitLadder /\ [][LadderNext]_vars

\* A hash manager as load_from_s3 leaves it: empty, or holding one bottle.
LoadedManagers ==
    {EmptyManager,
     manager_add_bottle(EmptyManager, FooName, PlainVersion, Arm64, HexA, OldDate,
                        IntSize(1)).manager}

\* ECSBottleDownloader.run after the formulas were fetched (line 183).
InitEcs ==
    /\ SaveIdle({}) /\ max_attempts = 1 /\ RetryIdle("unused") /\ PureIdle /\ DelayIdle
    /\ recovery_store = [k \in RecoveryKeys |-> NoDoc]
    /\ recovery_state = NoDoc
    /\ utcnow = 1
    /\ saved_arg = NoDoc
    /\ recovery_call = NoCall
    /\ manager \in LoadedManagers
    /\ manager_call = NoCall
    /\ LadderIdle
    /\ ecs_sync \in [pc : {"plan"}, formulas : FormulaLists, download_plan : {<<>>},
                     completed_bottles : {0}, failed_bottles : {0},
                     shutdown_requested : {FALSE}, updated : {FALSE},
                     save : {"not_called"}, persisted : {NoDoc}, returned : {"none"}]
    /\ lambda_sync = [pc |-> "idle"]
SpecEcs == InitEcs /\ [][EcsNext]_vars

\* LambdaSyncWorker.process_formula at its entry (line 176) for the formula
\* foo 1.0; loaded keeps the hash manager as it was at the entry.
InitLambda ==
    /\ SaveIdle({}) /\ max_attempts = 1 /\ RetryIdle("unused") /\ PureIdle /\ DelayIdle
    /\ recovery_store = [k \in RecoveryKeys |-> NoDoc]
    /\ recovery_state = NoDoc
    /\ utcnow = 1
    /\ saved_arg = NoDoc
    /\ recovery_call = NoCall
    /\ manager \in LoadedManagers
    /\ manager_call = NoCall
    /\ LadderIdle
    /\ ecs_sync = [pc |-> "idle"]
    /\ \E bs \in FormulaBottles, ts \in TargetPlatformLists :
         lambda_sync = [pc |-> "check", bottles |-> bs, target_platforms |-> ts,
                        i |-> 1, events |-> <<>>, results |-> <<>>,
                        raised |-> "none", loaded |-> manager]
SpecLambda == InitLambda /\ [][LambdaNext]_vars

\* The same call when the thread that runs it keeps running.
SpecLadderFair == SpecLadder /\ WF_vars(LadderNext)

\* detect_corruption on managers filled by add_bottle, load_from_dict, a
\* rebuild or a direct assignment.
SpecCorruption == InitManager /\ [][CorruptionNext]_vars

\* ------------------------------------------------- properties: atomic save
\* The document save_to_s3_atomic of process p is installing.
NewDocument(p) == to_dict(last_updated[p], bottles[p], now)

\* C1: crash consistency of save_to_s3_atomic. With a writer that may stop
\* after any step, every step that changes the object at the canonical key
\* replaces it by the complete new document of the call in progress: the key
\* never becomes absent and never holds anything but the document that was
\* there or the new one.
C1_CrashConsistency ==
    [][store'[HASH_FILE_KEY] # store[HASH_FILE_KEY] =>
          \E p \in writers : /\ pc[p] \in InCall
                             /\ store'[HASH_FILE_KEY] = NewDocument(p)
                             /\ store'[HASH_FILE_KEY] # NoDoc]_vars

\* The writer stopped after the copy and before the temp delete, over a
\* canonical document that now is the new one, the temp key still present.
C1_Witness ==
    /\ pc["p1"] = "crashed"
    /\ Executed(hist["p1"], "copy")
    /\ store[HASH_FILE_KEY] = NewDocument("p1")
    /\ store[TEMP_HASH_FILE_KEY] # NoDoc
    /\ bottles["p1"] # {}

\* C2: when the read-back of the temp key returns no document or a document
\* whose last_updated differs from the call's, save_to_s3_atomic returns false
\* at once, its copy step is never executed and the call has not written the
\* canonical key (whose content is therefore what it was before the call,
\* unless another writer installed a document meanwhile).
C2_ReadBackFailureLeavesCanonical ==
    \A p \in writers :
        hist[p].readback \in {"none", "differs"} =>
            /\ pc[p] = "done"
            /\ result[p] = "false"
            /\ ~Executed(hist[p], "copy")
            /\ p \notin hist[p].changedBy

\* A call whose read-back found the document of another call under the temp
\* key, over a canonical key that holds a document.
C2_Witness ==
    \E p \in writers :
        /\ hist[p].readback = "differs"
        /\ pc[p] = "done"
        /\ store[HASH_FILE_KEY] # NoDoc

\* C3: on every failing path of save_to_s3_atomic the call returns false and a
\* delete of the temp key was attempted before it returned.
C3_CleanupOnEveryFailure ==
    \A p \in writers :
        (pc[p] = "done" /\ result[p] # "true") =>
            /\ result[p] = "false"
            /\ (Executed(hist[p], "delete") \/ Executed(hist[p], "cleanup_delete"))

\* C4: with two writers, every call that returns true executed its copy step
\* while the temp key held the caller's own document.
C4_TrueReturnInstalledOwnDocument ==
    \A p \in writers : result[p] = "true" => hist[p].installed_own

\* C5: with a single writer, save_to_s3_atomic returns true only after
\* last_updated was set, the document uploaded to the temp key, the read-back
\* returned the same last_updated, the temp object copied to the canonical key
\* and the delete of the temp key issued, in this order; the canonical key then
\* holds exactly the manager's to_dict() document with that last_updated.
C5_TrueReturnOrderAndContent ==
    \A p \in writers :
        result[p] = "true" =>
            /\ hist[p].steps = <<"set_last_updated", "upload", "readback", "copy", "delete">>
            /\ hist[p].readback = "matched"
            /\ last_updated[p] # None
            /\ store[HASH_FILE_KEY] = [last_updated |-> last_updated[p],
                                       bottles |-> bottles[p]]

\* A true return that replaced an older canonical document by a newer one.
C5_Witness ==
    /\ result["p1"] = "true"
    /\ bottles["p1"] # {}
    /\ last_updated["p1"] > 0

\* ------------------------------------------------ properties: retry loops
Last(s) == s[Len(s)]

\* Errors that should_retry accepts below the attempt budget, and errors it
\* refuses at every attempt (by the claims' lists).
AcceptedErrors ==
    {Exc({"ConnectionError"}, "", {}), Exc({"ClientError"}, "Throttling", {}),
     Exc({}, "", {})}
RefusedErrors ==
    {Exc({"ValueError"}, "", {}), Exc({"PermissionError"}, "", {}),
     Exc({"ClientError"}, "AccessDenied", {})}

AlwaysFailing(c) ==
    \A i \in 1..Len(outcomes[c]) : ~outcomes[c][i].ok /\ outcomes[c][i].err \in AcceptedErrors

\* C6: retry budget exhaustion. When every invocation raises an error that
\* should_retry accepts, retry_sync invokes the function exactly max_attempts
\* times and then raises the exception of the last invocation.
C6_BudgetExhaustion ==
    AlwaysFailing("sync") =>
        /\ Len(outcomes["sync"]) <= max_attempts
        /\ (status["sync"] = "running" <=> Len(outcomes["sync"]) < max_attempts)
        /\ (status["sync"] # "running" =>
               /\ status["sync"] = "raised"
               /\ retval["sync"] = [kind |-> "exception", at |-> max_attempts,
                                    err |-> outcomes["sync"][max_attempts].err])

C6_Witness ==
    /\ max_attempts = 3
    /\ AlwaysFailing("sync")
    /\ status["sync"] = "raised"
    /\ Len(outcomes["sync"]) = 3

\* C7: non-retryable short-circuit. When invocation k raises an error that
\* should_retry refuses, retry_sync and retry_async make no further invocation
\* and raise that same error: exactly k invocations, whatever max_attempts.
C7_NonRetryableShortCircuit ==
    \A c \in Calls : \A k \in 1..Len(outcomes[c]) :
        (~outcomes[c][k].ok /\ outcomes[c][k].err \in RefusedErrors) =>
            /\ Len(outcomes[c]) = k
            /\ status[c] = "raised"
            /\ retval[c] = [kind |-> "exception", at |-> k, err |-> outcomes[c][k].err]

\* A ValueError on attempt 1 of retry_sync and a refused error on attempt 2 of
\* retry_async, both with attempts left.
C7_Witness ==
    /\ max_attempts = 3
    /\ outcomes["sync"] = <<[ok |-> FALSE, err |-> Exc({"ValueError"}, "", {})]>>
    /\ status["sync"] = "raised"
    /\ Len(outcomes["async"]) = 2
    /\ Last(outcomes["async"]).err \in RefusedErrors
    /\ status["async"] = "raised"

\* C8: no failure becomes a silent success. A call returns only the value of
\* an invocation that did not raise, at the first such invocation; a call that
\* ended otherwise raised the exception of its most recent invocation; and a
\* call goes on only while it has made fewer than max_attempts invocations.
C8_NoSilentSuccess ==
    \A c \in Calls :
        LET n == Len(outcomes[c]) IN
        /\ \A i \in 1..(n - 1) : ~outcomes[c][i].ok
        /\ n <= max_attempts
        /\ status[c] = "running" => n < max_attempts
        /\ status[c] = "returned" =>
              /\ n >= 1 /\ outcomes[c][n].ok
              /\ retval[c] = [kind |-> "value", at |-> n, err |-> NoError]
        /\ status[c] = "raised" =>
              /\ n >= 1 /\ ~outcomes[c][n].ok
              /\ retval[c] = [kind |-> "exception", at |-> n, err |-> outcomes[c][n].err]
        /\ (n >= 1 /\ outcomes[c][n].ok) => status[c] = "returned"

\* retry_sync returned at its third attempt after two failures, and retry_async
\* raised the third of three different errors.
C8_Witness ==
    /\ status["sync"] = "returned" /\ Len(outcomes["sync"]) = 3
    /\ status["async"] = "raised" /\ Len(outcomes["async"]) = 3
    /\ outcomes["async"][1].err # outcomes["async"][3].err

\* -------------------------------------------- properties: pure functions
\* C9: validation and authentication errors are never retried. For every
\* exception classified as validation_error or authentication_error,
\* should_retry is false at every attempt and max_attempts, and
\* determine_recovery_action does not answer retry.
C9_ValidationAuthNeverRetried ==
    (out.applied /\ out.error_type \in {"validation_error", "authentication_error"}) =>
        /\ ~out.should_retry
        /\ out.action # "retry"

\* A ClientError with a bad signature, on attempt 1 of 3.
C9_Witness ==
    /\ out.applied
    /\ in_error = Exc({"ClientError"}, "SignatureDoesNotMatch", {})
    /\ out.error_type = "authentication_error"
    /\ in_attempt = 1 /\ max_attempts = 3

\* The table of should_retry, by cases.
ShouldRetryTable(error, att, max) ==
    LET network == isinstance(error, {"ConnectionError", "TimeoutError"})
        client == isinstance(error, {"ClientError"})
        refused == isinstance(error, {"ValueError", "KeyError", "PermissionError"})
    IN /\ att < max
       /\ \/ network
          \/ ~network /\ client /\ error.code \in
                {"Throttling", "ThrottlingException", "RequestLimitExceeded",
                 "ServiceUnavailable", "InternalError", "SlowDown"}
          \/ ~network /\ ~client /\ ~refused

\* C10: should_retry(error, attempt) equals the table for every error kind,
\* attempt and max_attempts.
C10_ShouldRetryTable ==
    out.applied => out.should_retry = ShouldRetryTable(in_error, in_attempt, max_attempts)

\* A storage error with a retryable code below the budget, retried.
C10_Witness ==
    /\ out.applied
    /\ in_error = Exc({"ClientError"}, "SlowDown", {})
    /\ in_attempt = 2 /\ max_attempts = 3
    /\ out.should_retry

\* The recovery decision table, one line per error type.
RecoveryTable(error_type, att, no_such_key) ==
    CASE error_type = "network_error" -> IF att < 5 THEN "retry" ELSE "skip"
      [] error_type = "s3_error" /\ no_such_key -> "skip"
      [] error_type = "s3_error" /\ ~no_such_key -> IF att < 3 THEN "retry" ELSE "skip"
      [] error_type = "hash_corruption" -> "rebuild"
      [] error_type = "resource_exhaustion" -> IF att < 10 THEN "retry" ELSE "abort"
      [] error_type = "validation_error" -> "skip"
      [] error_type = "authentication_error" -> "abort"
      [] error_type = "timeout_error" -> IF att < 3 THEN "retry" ELSE "skip"
      [] error_type = "unknown_error" -> IF att < 2 THEN "retry" ELSE "skip"

\* C11: determine_recovery_action answers exactly the decision table for every
\* error type and attempt number (network: retry below 5 else skip; storage:
\* skip on NoSuchKey, else retry below 3 else skip; hash corruption: rebuild;
\* resource exhaustion: retry below 10 else abort; validation: skip;
\* authentication: abort; timeout: retry below 3 else skip; unknown: retry
\* below 2 else skip), and never answers fallback.
C11_RecoveryDecisionTable ==
    out.applied =>
        /\ out.action = RecoveryTable(out.error_type, in_attempt,
                                      MessageHasNoSuchKey(in_error))
        /\ out.action \in {"retry", "skip", "abort", "rebuild"}
        /\ out.action # "fallback"

\* A network error at its fifth attempt is skipped.
C11_Witness ==
    /\ out.applied
    /\ out.error_type = "network_error"
    /\ in_attempt = 5
    /\ out.action = "skip"

\* The classification table: the rules in order, each under the negation of
\* the rules before it.
ClassificationTable(error) ==
    LET network == isinstance(error, {"ConnectionError", "TimeoutError"})
        client == isinstance(error, {"ClientError"})
        value == isinstance(error, {"ValueError", "KeyError"})
        permission == isinstance(error, {"PermissionError"})
        typed == network \/ client \/ value \/ permission
        timeout == "timeout" \in error.msg
        hash == "hash" \in error.msg \/ "corruption" \in error.msg
    IN CASE network -> "network_error"
         [] ~network /\ client ->
              (CASE error.code \in {"NoSuchBucket", "NoSuchKey", "AccessDenied"} -> "s3_error"
                 [] error.code \in {"InvalidRequest", "MalformedPolicy"} -> "validation_error"
                 [] error.code \in {"Throttling", "RequestLimitExceeded"} ->
                      "resource_exhaustion"
                 [] error.code \in {"SignatureDoesNotMatch", "InvalidAccessKeyId"} ->
                      "authentication_error"
                 [] OTHER -> "s3_error")
         [] ~network /\ ~client /\ value -> "validation_error"
         [] ~network /\ ~client /\ ~value /\ permission -> "authentication_error"
         [] ~typed /\ timeout -> "timeout_error"
         [] ~typed /\ ~timeout /\ hash -> "hash_corruption"
         [] ~typed /\ ~timeout /\ ~hash -> "unknown_error"

\* C12: classify_error assigns the error type by the ordered table, first
\* match wins: connection/timeout classes, then ClientError by its code, then
\* ValueError/KeyError, then PermissionError, then the message substrings
\* timeout, hash or corruption, else unknown; a rule on the exception class
\* always wins over a rule on the message.
C12_ClassificationOrder ==
    out.applied =>
        /\ out.error_type = ClassificationTable(in_error)
        /\ isinstance(in_error, {"ConnectionError", "TimeoutError", "ClientError",
                                 "ValueError", "KeyError", "PermissionError"}) =>
              out.error_type \notin {"timeout_error", "hash_corruption", "unknown_error"}

\* A ValueError whose message mentions a timeout is a validation error.
C12_Witness ==
    /\ out.applied
    /\ in_error = Exc({"ValueError"}, "", {"timeout"})
    /\ out.error_type = "validation_error"

\* -------------------------------------------- properties: calculate_delay
\* The four statements about the delays computed so far, without jitter: zero
\* up to attempt 1, never above max_delay, non-decreasing from attempt 1 on,
\* and constant once max_delay is reached.
DelaysMonotoneAndCapped ==
    /\ \A i \in 1..Len(delays) : AttemptOf(i) <= 1 => RatEq(delays[i], Rat(0, 1))
    /\ \A i \in 1..Len(delays) : RatLeq(delays[i], config.max_delay)
    /\ \A i \in 1..(Len(delays) - 1) :
          AttemptOf(i) >= 1 => RatLeq(delays[i], delays[i + 1])
    /\ \A i, j \in 1..Len(delays) :
          (AttemptOf(i) >= 1 /\ i < j /\ RatEq(delays[i], config.max_delay)) =>
              RatEq(delays[j], config.max_delay)

\* C13 as stated: for every RetryConfig with jitter off the delays are zero up
\* to attempt 1, never exceed max_delay, never decrease and stay at max_delay
\* once they reach it.
C13_DelayMonotoneEveryConfig == ~config.jitter => DelaysMonotoneAndCapped

\* C13, amended: the same for every RetryConfig with jitter off whose
\* exponential_base is at least 1 and whose max_delay is not negative.
C13_DelayMonotone ==
    (/\ ~config.jitter
     /\ RatLeq(Rat(1, 1), config.exponential_base)
     /\ RatLeq(Rat(0, 1), config.max_delay)) => DelaysMonotoneAndCapped

\* Base delay 1, base 2, limit 3: the delays 0, 0, 1, 2, 3, 3 of attempts 0..5.
C13_Witness ==
    /\ config = [base_delay |-> Rat(1, 1), max_delay |-> Rat(3, 1),
                 exponential_base |-> Rat(2, 1), jitter |-> FALSE,
                 backoff_multiplier |-> Rat(1, 1)]
    /\ Len(delays) = 6
    /\ RatEq(delays[4], Rat(2, 1))
    /\ RatEq(delays[5], Rat(3, 1))
    /\ RatEq(delays[6], Rat(3, 1))

\* ---------------------------------------- properties: PartialSyncRecovery
\* C14: after any sequence of update_progress calls on a fresh RecoveryState,
\* every bottle identifier is in at most one of completed_bottles,
\* failed_bottles and skipped_bottles.
C14_ListsDisjoint ==
    recovery_call.op = "update_progress" =>
        /\ recovery_state.completed_bottles \cap recovery_state.failed_bottles = {}
        /\ recovery_state.completed_bottles \cap recovery_state.skipped_bottles = {}
        /\ recovery_state.failed_bottles \cap recovery_state.skipped_bottles = {}

\* C15: a call of update_progress with status completed that adds a new bottle
\* and brings the number of completed bottles to a positive multiple of 10
\* sets recovery_checkpoint to the current time and calls save_recovery_state
\* with the state that already holds the bottle.
C15_TenthCompletionCheckpointed ==
    (/\ recovery_call.op = "update_progress"
     /\ recovery_call.status = "completed"
     /\ recovery_call.added
     /\ Cardinality(recovery_state.completed_bottles) > 0
     /\ Cardinality(recovery_state.completed_bottles) % 10 = 0) =>
        /\ recovery_state.recovery_checkpoint = utcnow
        /\ recovery_call.saved
        /\ saved_arg = recovery_state
        /\ recovery_call.bottle_id \in saved_arg.completed_bottles

\* The tenth completion has just been recorded and its checkpoint uploaded.
C15_Witness ==
    /\ recovery_call.op = "update_progress"
    /\ recovery_call.status = "completed"
    /\ recovery_call.added
    /\ Cardinality(recovery_state.completed_bottles) = 10
    /\ recovery_call.bottle_id \in saved_arg.completed_bottles
    /\ recovery_store[RECOVERY_STATE_KEY] = recovery_to_dict(recovery_state)

\* The object under the recovery key is a checkpoint from_dict accepts.
IsCheckpoint(d) == {"sync_id", "start_time"} \subseteq DOMAIN d

\* C16 as stated: should_resume_sync answers (false, none) without a stored
\* state, (true, state) for a stored checkpoint of the current sync, (true,
\* state) with the store unchanged for a foreign checkpoint started less than
\* 24 hours ago, and (false, none) with the checkpoint key deleted for a
\* foreign checkpoint started 24 hours ago or earlier.
C16_ResumeDecisionAsStated ==
    recovery_call.op = "should_resume_sync" =>
        LET c == recovery_call
            stored == IsCheckpoint(c.before)
            same == c.before.sync_id = c.sync_id
            aware == c.before.start_time.kind = "aware"
            age == utcnow - c.before.start_time.t
        IN /\ c.before = NoDoc => (~c.resume /\ c.returned = NoDoc)
           /\ (stored /\ same) =>
                 (c.resume /\ c.returned = recovery_from_dict(c.before))
           /\ (stored /\ ~same /\ aware /\ age < ResumeWindow) =>
                 /\ c.resume /\ c.returned = recovery_from_dict(c.before)
                 /\ recovery_store[RECOVERY_STATE_KEY] = c.before
           /\ (stored /\ ~same /\ aware /\ age >= ResumeWindow) =>
                 /\ ~c.resume /\ c.returned = NoDoc
                 /\ recovery_store[RECOVERY_STATE_KEY] = NoDoc

\* C16, amended: when the checkpoint cannot be loaded (no object, failed
\* download, unreadable or incomplete document) the answer is (false, none);
\* a loaded checkpoint of the current sync gives (true, state); a foreign one
\* started less than 24 hours ago gives (true, state); a foreign one started
\* 24 hours ago or earlier gives (false, none) after a call of
\* clear_recovery_state, which removes the key unless the delete fails; a
\* foreign one whose start_time is no timestamp with an offset gives (false,
\* none). The store changes in no case but the removal.
C16_ResumeDecision ==
    recovery_call.op = "should_resume_sync" =>
        LET c == recovery_call
            loaded == c.downloaded /\ IsCheckpoint(c.before)
            same == c.before.sync_id = c.sync_id
            aware == c.before.start_time.kind = "aware"
            age == utcnow - c.before.start_time.t
            unchanged == recovery_store[RECOVERY_STATE_KEY] = c.before
        IN /\ ~loaded => (~c.resume /\ c.returned = NoDoc /\ unchanged)
           /\ (loaded /\ same) =>
                 (c.resume /\ c.returned = recovery_from_dict(c.before) /\ unchanged)
           /\ (loaded /\ ~same /\ aware /\ age < ResumeWindow) =>
                 (c.resume /\ c.returned = recovery_from_dict(c.before) /\ unchanged)
           /\ (loaded /\ ~same /\ aware /\ age >= ResumeWindow) =>
                 /\ ~c.resume /\ c.returned = NoDoc
                 /\ c.cleared # "not_called"
                 /\ IF c.cleared = "deleted"
                    THEN recovery_store[RECOVERY_STATE_KEY] = NoDoc
                    ELSE unchanged
           /\ (loaded /\ ~same /\ ~aware) =>
                 (~c.resume /\ c.returned = NoDoc /\ unchanged)
           /\ ~(loaded /\ ~same /\ aware /\ age >= ResumeWindow) =>
                 c.cleared = "not_called"

\* A foreign checkpoint started exactly 24 hours ago has been cleared.
C16_Witness ==
    /\ recovery_call.op = "should_resume_sync"
    /\ recovery_call.sync_id = "sync-1"
    /\ IsCheckpoint(recovery_call.before)
    /\ recovery_call.before.sync_id = "sync-2"
    /\ recovery_call.before.start_time = Aware(0)
    /\ utcnow = ResumeWindow
    /\ ~recovery_call.resume
    /\ recovery_call.cleared = "deleted"
    /\ recovery_store[RECOVERY_STATE_KEY] = NoDoc

\* C17: load_recovery_state called with a sync_id returns a state only when
\* the stored checkpoint carries that sync_id; for a checkpoint of another
\* sync, a missing key or an unreadable document it returns none; it never
\* raises and never changes the stored object.
C17_LoadNeverAdoptsForeign ==
    (recovery_call.op = "load_recovery_state" /\ recovery_call.sync_id # "") =>
        LET c == recovery_call
        IN /\ c.returned # NoDoc =>
                 /\ IsCheckpoint(c.before)
                 /\ c.before.sync_id = c.sync_id
                 /\ c.returned = recovery_from_dict(c.before)
           /\ (IsCheckpoint(c.before) /\ c.before.sync_id # c.sync_id) =>
                 c.returned = NoDoc
           /\ c.before \in {NoDoc, NotJson, EmptyObject, NoSyncIdObject} =>
                 c.returned = NoDoc
           /\ ~IsRaised(c.returned)
           /\ recovery_store[RECOVERY_STATE_KEY] = c.before

\* The checkpoint of sync-2 is stored, the download worked, and a load for
\* sync-1 returned none.
C17_Witness ==
    /\ recovery_call.op = "load_recovery_state"
    /\ recovery_call.sync_id = "sync-1"
    /\ recovery_call.downloaded
    /\ IsCheckpoint(recovery_call.before)
    /\ recovery_call.before.sync_id = "sync-2"
    /\ recovery_call.returned = NoDoc
    /\ recovery_store[RECOVERY_STATE_KEY] = recovery_call.before

\* ------------------------------------------ properties: HashFileManager map
\* The key name-version-platform of the arguments of a call.
KeyOfArgs(a) == a.name \o <<"-">> \o a.version \o <<"-">> \o a.platform

\* C18: has_bottle(formula, platform, bottle) is true exactly when the map
\* holds an entry under formula.name-formula.version-platform whose sha256
\* equals bottle.sha256; an entry under that key with another sha256 gives
\* false; the call changes neither the map nor last_updated.
C18_HasBottleExact ==
    [][manager_call'.op = "has_bottle" =>
          LET a == manager_call'.args
              present == KeyOfArgs(a) \in DOMAIN manager.bottles
          IN /\ manager' = manager
             /\ manager_call'.returned =
                    (present /\ manager.bottles[KeyOfArgs(a)].sha256 = a.sha256)
             /\ (present /\ manager.bottles[KeyOfArgs(a)].sha256 # a.sha256) =>
                    ~manager_call'.returned]_vars

\* has_bottle answered false for a key that is stored with another digest.
C18_Witness ==
    /\ manager_call.op = "has_bottle"
    /\ ~manager_call.returned
    /\ KeyOfArgs(manager_call.args) \in DOMAIN manager.bottles
    /\ manager.bottles[KeyOfArgs(manager_call.args)].sha256 = HexA
    /\ manager_call.args.sha256 = HexB

\* C19: add_bottle twice with the same valid arguments leaves the map after
\* the second call equal to the map after the first, and has_bottle for that
\* bottle is true after each of the two calls.
C19_IdempotentAdd ==
    [][(manager_call'.op = "add_bottle" /\ manager_call'.raised = "none") =>
          LET a == manager_call'.args
          IN /\ has_bottle(manager', a.name, a.version, a.platform, a.sha256)
             /\ manager_call'.repeats = 2 =>
                   /\ manager'.bottles = manager.bottles
                   /\ Cardinality(DOMAIN manager'.bottles) =
                        Cardinality(DOMAIN manager.bottles)]_vars

\* The same valid add_bottle call has been made twice on a map of two entries.
C19_Witness ==
    /\ manager_call.op = "add_bottle"
    /\ manager_call.raised = "none"
    /\ manager_call.repeats = 2
    /\ Cardinality(DOMAIN manager.bottles) = 2
    /\ KeyOfArgs(manager_call.args) \in DOMAIN manager.bottles

\* C20: after any sequence of add_bottle, load_from_dict,
\* merge_with_external_hash_file and rebuild_from_s3_metadata calls, every
\* entry of the map is stored under formula_name-version-platform.
C20_KeyDerivation ==
    \A key \in DOMAIN manager.bottles :
        LET e == manager.bottles[key]
        IN e.formula_name \o <<"-">> \o e.version \o <<"-">> \o e.platform = key

\* After a merge that inserted an entry, the map holds it next to a rebuilt
\* entry whose formula name contains a hyphen.
C20_Witness ==
    /\ manager_call.op = "merge_with_external_hash_file"
    /\ manager_call.returned >= 1
    /\ \E key \in DOMAIN manager.bottles :
          /\ manager.bottles[key].sha256 = "unknown"
          /\ IndicesOf(manager.bottles[key].formula_name, "-") # {}
    /\ \E key \in DOMAIN manager.bottles : IsHex64(manager.bottles[key].sha256)

\* C21: detect_corruption returns true exactly when last_updated is missing or
\* not parseable as ISO-8601, or some entry's derived key differs from its map
\* key, or some file_size is <= 0 or > 10 GiB, or some download_date is in the
\* future or not YYYY-MM-DD, and returns false in every other manager state.
ListedCorruption(m) ==
    \/ m.last_updated \in {None, Unparseable, NonString}
    \/ \E k \in DOMAIN m.bottles :
         LET e == m.bottles[k]
         IN \/ e.formula_name \o <<"-">> \o e.version \o <<"-">> \o e.platform # k
            \/ e.file_size.n <= 0
            \/ e.file_size.n > 10 * 1024
            \/ e.download_date \notin {Today, OldDate}

C21_CorruptionExactlyAsListed ==
    [][manager_call'.op = "detect_corruption" =>
         /\ manager_call'.raised = "none"
         /\ manager_call'.returned = ListedCorruption(manager)]_vars

\* C22: for every manager state reachable through add_bottle, load_from_dict,
\* merge_with_external_hash_file and rebuild_from_s3_metadata, load_from_dict
\* of to_dict() into a fresh manager succeeds and yields an equal bottles map
\* and an equal last_updated.
C22_RoundTrip ==
    LET r == load_from_dict(EmptyManager, manager_to_dict(manager, utcnow))
    IN /\ r.raised = "none"
       /\ r.manager.bottles = manager.bottles
       /\ r.manager.last_updated = manager.last_updated

\* ------------------------------- properties: load_existing_hash_file
LastCall(l) == l.calls[Len(l.calls)]
MakesCall(op) ==
    /\ ladder'.pc # "idle"
    /\ Len(ladder'.calls) = Len(ladder.calls) + 1
    /\ LastCall(ladder').op = op

\* A downloaded document that load_from_dict accepts.
Parseable(d) == d # NoDoc /\ load_from_dict(EmptyManager, d).raised = "none"

\* C23: load_from_s3 with an external key never raises; it returns true
\* exactly when the external or the canonical download gave a document that
\* can be parsed, and whenever the external path failed in any way and the
\* canonical document can be parsed, the manager holds the canonical document.
C23_FallbackOnEveryFailure ==
    [][(MakesCall("load_external_hash_file") /\ ladder.sync_config = "s3_key") =>
         LET c == LastCall(ladder')
             ext == IF c.env.ext THEN bucket.external ELSE NoDoc
             can == IF c.env.can THEN bucket.canonical ELSE NoDoc
         IN /\ c.raised = "none"
            /\ c.returned = (Parseable(ext) \/ Parseable(can))
            /\ (~Parseable(ext) /\ Parseable(can)) =>
                   manager' = load_from_dict(EmptyManager, can).manager]_vars

\* C24: backup_current_hash_file returns true without writing anything when
\* the canonical key is absent; when the key is present it copies the
\* canonical object to the backup key and returns the outcome of that copy; in
\* both cases the canonical object and the manager's bottles and last_updated
\* are unchanged.
C24_BackupCopiesWhenPresent ==
    [][(MakesCall("backup_current_hash_file") /\ LastCall(ladder').raised = "none") =>
         LET c == LastCall(ladder')
         IN /\ bucket.canonical = NoDoc => (c.returned /\ bucket' = bucket)
            /\ bucket.canonical # NoDoc =>
                 /\ c.env.copy # "not_called"
                 /\ c.returned = (c.env.copy = "ok")
                 /\ bucket'.backup = IF c.env.copy = "ok" THEN bucket.canonical
                                     ELSE bucket.backup
            /\ bucket'.canonical = bucket.canonical
            /\ bucket'.external = bucket.external
            /\ manager' = manager]_vars

\* C25: whatever the external load, the canonical load, the corruption checks,
\* the backup and the rebuild do, raised exceptions included,
\* load_existing_hash_file makes at most six calls, lets no exception out and
\* comes to its return statement.
C25_LadderFinishes ==
    /\ [](ladder.pc # "raised" /\ Len(ladder.calls) <= 6)
    /\ <>(ladder.pc = "done")

\* A call that ended although one of the methods raised.
C25_Witness ==
    /\ ladder.pc = "done"
    /\ ladder.exception \in {"TypeError", "AttributeError", "Exception"}

\* C26: rebuild_from_s3_metadata is called only right after
\* backup_current_hash_file, which is called only right after detect_corruption
\* returned true on a canonical document that load_from_s3() had loaded; and
\* load_from_s3() is called only when no external load returned true or a
\* detect_corruption after it returned true.
C26_LadderOrder ==
    LET cs == ladder.calls
    IN \A i \in 1..Len(cs) :
         /\ cs[i].op = "rebuild_from_s3_metadata" =>
              /\ i >= 4
              /\ cs[i - 1].op = "backup_current_hash_file"
              /\ cs[i - 2].op = "detect_corruption" /\ cs[i - 2].returned
              /\ cs[i - 3].op = "load_from_s3" /\ cs[i - 3].returned
         /\ cs[i].op = "load_from_s3" =>
              \A j \in 1..(i - 1) :
                 (cs[j].op = "load_external_hash_file" /\ cs[j].returned) =>
                     \E k \in (j + 1)..(i - 1) :
                        cs[k].op = "detect_corruption" /\ cs[k].returned

\* A call that found the external document corrupted, then the canonical one,
\* and rebuilt.
C26_Witness ==
    /\ ladder.pc = "done"
    /\ Len(ladder.calls) = 6
    /\ ladder.calls[1].op = "load_external_hash_file" /\ ladder.calls[1].returned
    /\ ladder.calls[6].op = "rebuild_from_s3_metadata"

\* C27: the manager returned by load_existing_hash_file is an external
\* document that loaded and was not found corrupted, or the canonical document
\* that loaded and was not found corrupted, or the result of a successful
\* rebuild, or an empty manager; and it is empty whenever the canonical load
\* returned false or the rebuild failed.
SoundLoadOf(d) ==
    /\ Parseable(d)
    /\ manager = load_from_dict(EmptyManager, d).manager
    /\ ~detect_corruption(manager, Today).returned

C27_LadderOutcome ==
    ladder.pc = "done" =>
      LET cs == ladder.calls
          last == cs[Len(cs)]
      IN /\ \/ SoundLoadOf(bucket.external)
            \/ SoundLoadOf(bucket.canonical)
            \/ Len(cs) > 0 /\ last.op = "rebuild_from_s3_metadata" /\ last.returned
            \/ manager = EmptyManager
         /\ (\E i \in 1..Len(cs) :
               /\ cs[i].op \in {"load_from_s3", "rebuild_from_s3_metadata"}
               /\ ~cs[i].returned) => manager = EmptyManager

\* ------------------------------ properties: rebuild and merge of the map
\* The ways to read an object key as
\* <date>/.../<formula>-<version>.<platform>.bottle.tar.gz: the date is the
\* text before the first "/", the file name the text after the last one, the
\* platform the text after the last "." of the name without its suffix, the
\* version the text between that "." and the last "-" before it. `depth` is
\* the number of "/" in the key.
ReadingsOf(key) ==
    IF ~endswith(key, BottleSuffix) \/ IndicesOf(key, "/") = {} THEN {}
    ELSE LET first == Lowest(IndicesOf(key, "/"))
             last == Highest(IndicesOf(key, "/"))
             base == SubSeq(key, last + 1, Len(key) - Len(BottleSuffix))
         IN {[date |-> SubSeq(key, 1, first - 1),
              formula |-> SubSeq(base, 1, i - 1),
              version |-> SubSeq(base, i + 1, j - 1),
              platform |-> SubSeq(base, j + 1, Len(base)),
              depth |-> Cardinality(IndicesOf(key, "/"))] :
                <<i, j>> \in {p \in (1..Len(base)) \X (1..Len(base)) :
                     /\ base[p[1]] = "-" /\ base[p[2]] = "." /\ p[1] < p[2]
                     /\ \A k \in (p[2] + 1)..Len(base) : base[k] # "."
                     /\ \A k \in (p[1] + 1)..(p[2] - 1) : base[k] # "-"}}

\* The entries a listing gives under one reading of "a key of the shape".
RebuiltFrom(objects, Shape(_)) ==
    {[key |-> r.formula \o <<"-">> \o r.version \o <<"-">> \o r.platform,
      entry |-> [formula_name |-> r.formula, version |-> r.version,
                 platform |-> r.platform, sha256 |-> "unknown",
                 download_date |-> r.date[1],
                 file_size |-> [type |-> "int", n |-> objects[i].size]]] :
        <<i, r>> \in {p \in (1..Len(objects)) \X
                             UNION {ReadingsOf(objects[n].key) : n \in 1..Len(objects)} :
                        /\ p[2] \in ReadingsOf(objects[p[1]].key)
                        /\ Len(p[2].date) = 1 /\ p[2].date[1] \in {Today, OldDate, FutureDate}
                        /\ Shape(p[2])
                        /\ objects[p[1]].metadata = "available"}}

\* The map holds one entry per derived key and nothing else.
HoldsExactly(b, derived) ==
    /\ DOMAIN b = {d.key : d \in derived}
    /\ \A k \in DOMAIN b : \E d \in derived : d.key = k /\ d.entry = b[k]

\* <YYYY-MM-DD>/<formula>-<version>.<platform>.bottle.tar.gz, read strictly: the
\* file lies directly in the date folder and no part is empty.
StrictShape(r) ==
    r.depth = 1 /\ r.formula # <<>> /\ r.version # <<>> /\ r.platform # <<>>

\* What the loop accepts: any path below the date folder, any part empty.
AcceptedShape(r) == TRUE

C29_RebuiltBottlesNotSynced ==
    [][manager_call'.op = "rebuild_from_s3_metadata" =>
         \A k \in DOMAIN manager'.bottles : \A sha256 \in {HexA, HexB} :
            LET e == manager'.bottles[k]
            IN /\ ~has_bottle(manager', e.formula_name, e.version, e.platform, sha256)
               /\ \A a \in HasArgs :
                    a.sha256 = sha256 =>
                      ~has_bottle(manager', a.name, a.version, a.platform, a.sha256)]_vars

\* A has_bottle call with a real digest for a bottle whose key is in the map
\* that a rebuild left.
C29_Witness ==
    /\ manager_call.op = "has_bottle"
    /\ manager_call.args.sha256 = HexA
    /\ KeyOfArgs(manager_call.args) \in DOMAIN manager.bottles
    /\ \A k \in DOMAIN manager.bottles : manager.bottles[k].sha256 = "unknown"
    /\ ~manager_call.returned

\* An entry of an external document that can be parsed and is valid: its key
\* splits at its last two hyphens into a formula, a version and a platform,
\* none of them empty, and its data hold a 64-character hexadecimal sha256, a
\* YYYY-MM-DD download date and a positive integer file size.
ValidExternalItem(item) ==
    LET parts == rsplit(item.key, "-")
    IN /\ Len(parts) = 2
       /\ Len(rsplit(parts[1], "-")) = 2
       /\ \A part \in {rsplit(parts[1], "-")[1], rsplit(parts[1], "-")[2], parts[2]} :
             part # <<>>
       /\ item.data # NotADict
       /\ {"sha256", "download_date", "file_size"} \subseteq DOMAIN item.data
       /\ IsHex64(item.data.sha256)
       /\ IsYMD(item.data.download_date)
       /\ item.data.file_size.type = "int"
       /\ item.data.file_size.n > 0

\* What a merge of the remembered document did to the map, the count and
\* last_updated: valid external entries replaced the local ones at their keys,
\* keys outside the document kept their entries, and a merge that returned
\* gave the count of valid external entries and set last_updated to the clock
\* exactly when that count is positive.
ExternalTookPrecedence ==
    LET items == get(manager_call'.document, "bottles", <<>>)
        valid == {i \in 1..Len(items) : ValidExternalItem(items[i])}
        external_keys == {items[i].key : i \in 1..Len(items)}
    IN /\ \A i \in valid :
            items[i].key \in DOMAIN manager.bottles =>
              /\ items[i].key \in DOMAIN manager'.bottles
              /\ entry_to_dict(manager'.bottles[items[i].key]) = items[i].data
       /\ \A k \in DOMAIN manager.bottles \ external_keys :
            /\ k \in DOMAIN manager'.bottles
            /\ manager'.bottles[k] = manager.bottles[k]
       /\ manager_call'.raised = "none" =>
            /\ manager_call'.returned = Cardinality(valid)
            /\ manager'.last_updated =
                 IF manager_call'.returned > 0 THEN utcnow ELSE manager.last_updated

\* C30: merge_with_external_hash_file gives the external document precedence:
\* for every key present both locally and in the external document with a
\* parseable, valid external entry, the local entry after the merge equals the
\* external one; local entries whose key is not in the document are unchanged;
\* the returned count is the number of external entries inserted or
\* overwritten; last_updated is changed if and only if that count is positive.
C30_ExternalWins ==
    [][manager_call'.op = "merge_with_external_hash_file" => ExternalTookPrecedence]_vars

\* C31: a malformed record never aborts a merge: for every external document,
\* the ones that go through migrate_external_hash_file included,
\* merge_with_external_hash_file does not raise, every entry that can be parsed
\* and validated is in the map afterwards and is counted, and every other
\* entry is skipped.
C31_MalformedRecordSkipped ==
    [][manager_call'.op = "merge_with_external_hash_file" =>
         LET items == get(manager_call'.document, "bottles", <<>>)
             valid == {i \in 1..Len(items) : ValidExternalItem(items[i])}
         IN /\ manager_call'.raised = "none"
            /\ manager_call'.returned = Cardinality(valid)
            /\ \A i \in valid :
                 /\ items[i].key \in DOMAIN manager'.bottles
                 /\ entry_to_dict(manager'.bottles[items[i].key]) = items[i].data
            /\ \A i \in (1..Len(items)) \ valid :
                 \/ items[i].key \notin DOMAIN manager'.bottles
                 \/ /\ items[i].key \in DOMAIN manager.bottles
                    /\ manager'.bottles[items[i].key] = manager.bottles[items[i].key]]_vars

\* -------------------------------- properties: retry loops on a shared handler
\* How a retry call stands after the invocations `outs` when no other call
\* runs: it returned at an invocation that did not raise, raised at one whose
\* error should_retry refused (the last attempt's always is), and goes on
\* otherwise.
RunAlone(outs, max) ==
    LET n == Len(outs)
    IN IF n = 0 THEN [status |-> "running", retval |-> NoValue, attempt |-> 1]
       ELSE IF outs[n].ok
            THEN [status |-> "returned", attempt |-> n,
                  retval |-> [kind |-> "value", at |-> n, err |-> NoError]]
       ELSE IF ~should_retry(outs[n].err, n, max)
            THEN [status |-> "raised", attempt |-> n,
                  retval |-> [kind |-> "exception", at |-> n, err |-> outs[n].err]]
       ELSE [status |-> "running", retval |-> NoValue, attempt |-> n + 1]

\* The variables of one call.
CallState(c) ==
    <<attempt[c], status[c], last_exception[c], retval[c], outcomes[c], sleeps[c],
      metrics[c]>>

\* C32: a retry_sync and a retry_async call interleaved arbitrarily on one
\* RetryHandler: each call invokes its function at most max_attempts times,
\* its attempt counter, its status and its result are at every moment what
\* its own invocations give when it runs alone, a step of one call changes
\* nothing of the other call, and max_attempts of the shared config is never
\* modified.
C32_SharedHandlerSafe ==
    /\ [](\A c \in Calls :
            /\ Len(outcomes[c]) <= max_attempts
            /\ [status |-> status[c], retval |-> retval[c], attempt |-> attempt[c]]
                 = RunAlone(outcomes[c], max_attempts))
    /\ [][/\ max_attempts' = max_attempts
          /\ \A c \in Calls : outcomes'[c] = outcomes[c] => CallState(c)' = CallState(c)
          /\ \E c \in Calls : CallState(c)' = CallState(c)]_vars

\* retry_async has made its three invocations and raised while retry_sync,
\* begun before, is between its first and its second attempt; each call has
\* counted its own attempts.
C32_Witness ==
    /\ max_attempts = 3
    /\ status["async"] = "raised" /\ Len(outcomes["async"]) = 3 /\ attempt["async"] = 3
    /\ status["sync"] = "running" /\ Len(outcomes["sync"]) = 1 /\ attempt["sync"] = 2

\* ------------------------- properties: when update_progress writes a checkpoint
\* C33: update_progress calls save_recovery_state only in a call that records
\* a new completion bringing the number of completed bottles to a positive
\* multiple of 10; calls with status failed or skipped, repeated reports of a
\* completed bottle and calls on a state without completed bottles write
\* nothing.
C33_CheckpointOnlyAtTenth ==
    (recovery_call.op = "update_progress" /\ recovery_call.saved) =>
        /\ recovery_call.status = "completed"
        /\ recovery_call.added
        /\ Cardinality(recovery_state.completed_bottles) > 0
        /\ Cardinality(recovery_state.completed_bottles) % 10 = 0

\* ------------------------------------ properties: the manager a rebuild leaves
\* C34: after rebuild_from_s3_metadata returns true, for any listing, the
\* rebuilt manager passes its own checks: validate() does not raise and
\* detect_corruption() returns false.
C34_RebuildPassesOwnChecks ==
    [][(manager_call'.op = "rebuild_from_s3_metadata" /\ manager_call'.returned) =>
         /\ \A k \in DOMAIN manager'.bottles : entry_validate(manager'.bottles[k]) = "ok"
         /\ detect_corruption(manager', Today) = [returned |-> FALSE, raised |-> "none"]]_vars

\* ----------------------------------------- properties: the sync workers
\* The map or document holds an entry for a download of the plan.
HoldsDownload(entries, progress) ==
    \E k \in DOMAIN entries :
        /\ entries[k].formula_name = progress.formula_name
        /\ entries[k].platform = progress.platform
        /\ entries[k].sha256 = progress.expected_sha256

\* C35: in the ECS worker, when all downloads succeeded and no shutdown was
\* requested, _update_hash_file adds every completed download to the
\* HashFileManager and then calls save_to_s3_atomic, and when the save
\* succeeds the persisted hash file holds an entry for each completed bottle.
C35_CompletedBottlesPersisted ==
    (ecs_sync.pc = "done" /\ ecs_sync.updated) =>
        /\ \A i \in 1..Len(ecs_sync.download_plan) :
              ecs_sync.download_plan[i].status = "completed" =>
                 HoldsDownload(manager.bottles, ecs_sync.download_plan[i])
        /\ ecs_sync.save # "not_called"
        /\ ecs_sync.save = "true" =>
              \A i \in 1..Len(ecs_sync.download_plan) :
                 ecs_sync.download_plan[i].status = "completed" =>
                    \E j \in 1..Len(ecs_sync.persisted.bottles) :
                       LET item == ecs_sync.persisted.bottles[j]
                       IN /\ item.data.sha256 =
                               ecs_sync.download_plan[i].expected_sha256
                          /\ SubSeq(item.key, 1,
                                    Len(ecs_sync.download_plan[i].formula_name))
                               = ecs_sync.download_plan[i].formula_name

\* The calls process_formula has made for a platform, in order.
EventsOf(platform) ==
    SelectSeq(lambda_sync.events, LAMBDA e : e.platform = platform)

\* The entry of the formula foo 1.0 for a platform in a hash manager, or NoDoc.
EntryOf(m, platform) ==
    IF bottle_key(FooName, PlainVersion, platform) \in DOMAIN m.bottles
    THEN m.bottles[bottle_key(FooName, PlainVersion, platform)]
    ELSE NoDoc

\* C36: in process_formula, add_bottle is called for a bottle only directly
\* after has_bottle was false, download_bottle reported success, which it does
\* only when the digest computed equals the expected one, and
\* upload_bottle_to_s3 returned true for that bottle, in this order; a bottle
\* whose download or upload failed is never added and its entry in the hash
\* manager stays as it was, and a bottle for which has_bottle is true is
\* neither downloaded nor added again.
C36_AddedOnlyWhenVerifiedAndUploaded ==
    lambda_sync.pc # "idle" =>
      \A platform \in {Arm64, X86_64} :
        LET es == EventsOf(platform)
            ops == [k \in 1..Len(es) |-> es[k].op]
        IN /\ \A k \in 1..Len(es) :
                es[k].op = "download_bottle" =>
                  (es[k].ok <=> es[k].detail = lambda_sync.bottles[platform].sha256)
           /\ (\E k \in 1..Len(es) : es[k].op = "add_bottle") =>
                /\ ops = <<"has_bottle", "download_bottle", "upload_bottle_to_s3",
                           "add_bottle">>
                /\ ~es[1].ok /\ es[2].ok /\ es[3].ok
           /\ (\E k \in 1..Len(es) :
                 es[k].op \in {"download_bottle", "upload_bottle_to_s3"} /\ ~es[k].ok) =>
                /\ \A k \in 1..Len(es) : es[k].op # "add_bottle"
                /\ EntryOf(manager, platform) = EntryOf(lambda_sync.loaded, platform)
           /\ (\E k \in 1..Len(es) : es[k].op = "has_bottle" /\ es[k].ok) =>
                /\ ops = <<"has_bottle">>
                /\ EntryOf(manager, platform) = EntryOf(lambda_sync.loaded, platform)

\* process_formula returned after it added the arm64 bottle, whose download
\* was verified and uploaded, and gave up the x86_64 bottle whose download had
\* another digest than expected.
C36_Witness ==
    /\ lambda_sync.pc = "done"
    /\ lambda_sync.results = (Arm64 :> TRUE) @@ (X86_64 :> FALSE)
    /\ EntryOf(manager, Arm64) # NoDoc
    /\ EntryOf(lambda_sync.loaded, Arm64) = NoDoc
    /\ EntryOf(manager, X86_64) = NoDoc
    /\ \E k \in 1..Len(lambda_sync.events) :
         /\ lambda_sync.events[k].op = "download_bottle"
         /\ lambda_sync.events[k].platform = X86_64
         /\ lambda_sync.events[k].detail \in {HexA, HexB}
         /\ ~lambda_sync.events[k].ok

\* C37: after any sequence of add_bottle, load_from_dict and
\* merge_with_external_hash_file calls, each returning or raising, every
\* entry of the bottles map passes HashEntry.validate; and an add_bottle call
\* that raises leaves the map as it was before the call.
C37_StoredEntriesValid ==
    /\ [](\A key \in DOMAIN manager.bottles :
            entry_validate(manager.bottles[key]) = "ok")
    /\ [][(manager_call'.op = "add_bottle" /\ manager_call'.raised # "none")
            => manager'.bottles = manager.bottles]_vars

\* An add_bottle call raised on a manager that holds two entries, one of
\* which, not having today's date, came from a loaded or merged document.
C37_Witness ==
    /\ manager_call.op = "add_bottle"
    /\ manager_call.raised = "ValueError"
    /\ Cardinality(DOMAIN manager.bottles) = 2
    /\ manager.last_updated # None

\* The sleeps of a call that has made n invocations: one after each of the
\* first m, each with the delay of the attempt that had just failed.
SleepsAfterFirst(c, m) ==
    /\ sleeps[c] = [k \in 1..m |-> k]
    /\ \A k \in 1..m :
         /\ ~outcomes[c][k].ok
         /\ should_retry(outcomes[c][k].err, k, max_attempts)
         /\ k < max_attempts

\* C38: in retry_sync and retry_async a sleep occurs only after a failed
\* attempt k for which should_retry is true and k < max_attempts, with the
\* delay calculate_delay(k) of the attempt that just failed, and before
\* attempt k + 1; there is no sleep before attempt 1, after the final
\* attempt, after a failure that is not retried or after a success, so a
\* run of n invocations contains exactly n - 1 sleeps.
C38_SleepsOnlyBetweenAttempts ==
    /\ [](\A c \in Calls :
            LET n == Len(outcomes[c])
            IN IF status[c] = "running"
               THEN SleepsAfterFirst(c, n) /\ attempt[c] = n + 1
               ELSE n >= 1 /\ SleepsAfterFirst(c, n - 1) /\ Len(sleeps[c]) = n - 1)
    /\ [][\A c \in Calls :
            sleeps'[c] # sleeps[c] =>
              /\ Len(sleeps'[c]) = Len(sleeps[c]) + 1
              /\ Len(outcomes'[c]) = Len(outcomes[c]) + 1
              /\ ~outcomes'[c][Len(outcomes'[c])].ok
              /\ status'[c] = "running"]_vars

\* retry_sync returned from its third invocation after two sleeps, and
\* retry_async raised a failure of its first invocation, which is not
\* retried, without a sleep.
C38_Witness ==
    /\ max_attempts = 3
    /\ status["sync"] = "returned" /\ Len(outcomes["sync"]) = 3
    /\ sleeps["sync"] = <<1, 2>>
    /\ status["async"] = "raised" /\ Len(outcomes["async"]) = 1
    /\ outcomes["async"][1].err = Exc({"ValueError"}, "", {})
    /\ sleeps["async"] = <<>>

====
